---------------------------- MODULE Spec2Model ----------------------------
(***************************************************************************)
(* A model of the deep_research pipeline: the orchestrator (main.py), the  *)
(* source selector, the relevance filter and the analyzer (synthesis/).    *)
(*                                                                         *)
(* A Python str is a sequence of one-character strings, so that strip,     *)
(* find, slicing, lower-casing, substring tests and JSON decoding are      *)
(* computed on the text the way the code computes them.  Two characters    *)
(* are written by their code point: "U+0060" is the backtick and "U+2022"  *)
(* the bullet.                                                             *)
(***************************************************************************)
EXTENDS Integers, Sequences, FiniteSets, TLC

(***************************************************************************)
(* Python str operations                                                   *)
(***************************************************************************)

\* str.strip() and the JSON decoder treat these as whitespace.
Whitespace == {" ", "\n", "\t", "\r"}

\* sub occurs in s at 0-based offset i.
IsAt(s, sub, i) ==
    /\ i >= 0
    /\ i + Len(sub) <= Len(s)
    /\ \A k \in 1..Len(sub) : s[i + k] = sub[k]

\* s.find(sub): the lowest 0-based offset of sub in s, -1 when absent.
Find(s, sub) ==
    LET hits == {i \in 0..(Len(s) - Len(sub)) : IsAt(s, sub, i)}
    IN  IF hits = {} THEN -1 ELSE CHOOSE i \in hits : \A j \in hits : i <= j

\* s.rfind(sub): the highest 0-based offset of sub in s, -1 when absent.
RFind(s, sub) ==
    LET hits == {i \in 0..(Len(s) - Len(sub)) : IsAt(s, sub, i)}
    IN  IF hits = {} THEN -1 ELSE CHOOSE i \in hits : \A j \in hits : i >= j

\* sub in s
Contains(s, sub) == Find(s, sub) # -1

\* s[start:end] for integers start, end (negative indices count from the end).
PySlice(s, start, end) ==
    LET n  == Len(s)
        a0 == IF start < 0 THEN start + n ELSE start
        b0 == IF end < 0 THEN end + n ELSE end
        a  == IF a0 < 0 THEN 0 ELSE IF a0 > n THEN n ELSE a0
        b  == IF b0 < 0 THEN 0 ELSE IF b0 > n THEN n ELSE b0
    IN  IF a >= b THEN <<>> ELSE SubSeq(s, a + 1, b)

\* s.strip()
Strip(s) ==
    LET keep == {i \in 1..Len(s) : s[i] \notin Whitespace}
    IN  IF keep = {} THEN <<>>
        ELSE SubSeq(s, CHOOSE i \in keep : \A j \in keep : i <= j,
                       CHOOSE i \in keep : \A j \in keep : i >= j)

UpperCase == <<"A", "B", "C", "D", "E", "F", "G", "H", "I", "J", "K", "L", "M",
               "N", "O", "P", "Q", "R", "S", "T", "U", "V", "W", "X", "Y", "Z">>

LowerCase == <<"a", "b", "c", "d", "e", "f", "g", "h", "i", "j", "k", "l", "m",
               "n", "o", "p", "q", "r", "s", "t", "u", "v", "w", "x", "y", "z">>

LowerChar(c) ==
    IF \E i \in 1..26 : UpperCase[i] = c
    THEN LowerCase[CHOOSE i \in 1..26 : UpperCase[i] = c]
    ELSE c

\* s.lower()
Lower(s) == [i \in 1..Len(s) |-> LowerChar(s[i])]

RECURSIVE SplitOn(_, _, _)
\* The pieces of s from 1-based position from on, cut at each occurrence of sep found
\* scanning left to right.
SplitOn(s, sep, from) ==
    LET hits == {i \in from..(Len(s) - Len(sep) + 1) : IsAt(s, sep, i - 1)}
        first == CHOOSE i \in hits : \A j \in hits : i <= j
    IN  IF hits = {} THEN <<SubSeq(s, from, Len(s))>>
        ELSE <<SubSeq(s, from, first - 1)>> \o SplitOn(s, sep, first + Len(sep))

\* s.split(sep) for a separator of one or more characters.
SplitStr(s, sep) == SplitOn(s, sep, 1)

\* s.split(sep) for a one-character separator.
Split(s, sep) == SplitStr(s, <<sep>>)

(***************************************************************************)
(* json.loads on the texts of the model: objects, arrays, strings without  *)
(* escapes, non-negative integers, true, false and null.  A decoded value  *)
(* is a record: k its Python type, s the characters of a str or a number,  *)
(* items the elements of a list or the values of a dict, keys the keys of  *)
(* a dict in insertion order.                                              *)
(***************************************************************************)

JVal(kind, chars, elems, ks) == [k |-> kind, s |-> chars, items |-> elems, keys |-> ks]

JNone == JVal("None", <<>>, <<>>, <<>>)

JTrue == JVal("bool", <<"T">>, <<>>, <<>>)

JFalse == JVal("bool", <<>>, <<>>, <<>>)

JStr(chars) == JVal("str", chars, <<>>, <<>>)

JInt(digits) == JVal("int", digits, <<>>, <<>>)

JList(elems) == JVal("list", <<>>, elems, <<>>)

JDict(ks, vals) == JVal("dict", <<>>, vals, ks)

Digits == {"0", "1", "2", "3", "4", "5", "6", "7", "8", "9"}

\* The first position at or after i that holds no whitespace (Len(s) + 1 at the end).
SkipWs(s, i) ==
    LET stop == {j \in i..Len(s) : s[j] \notin Whitespace}
    IN  IF stop = {} THEN Len(s) + 1 ELSE CHOOSE j \in stop : \A m \in stop : j <= m

ParseFail == [ok |-> FALSE, v |-> JNone, i |-> 0]

ParseOk(val, next) == [ok |-> TRUE, v |-> val, i |-> next]

\* A string literal opening at position i: up to the next quote, no raw control character.
ParseString(s, i) ==
    LET close == {j \in (i + 1)..Len(s) : s[j] = "\""}
    IN  IF close = {} THEN ParseFail
        ELSE LET j == CHOOSE c \in close : \A m \in close : c <= m
                 body == SubSeq(s, i + 1, j - 1)
             IN  IF \E m \in 1..Len(body) : body[m] \in {"\n", "\t", "\r", "\\"}
                 THEN ParseFail
                 ELSE ParseOk(JStr(body), j + 1)

\* An integer literal opening at position i: 0, or a digit run without a leading zero.
ParseNumber(s, i) ==
    LET stop == {j \in i..Len(s) : s[j] \notin Digits}
        run  == IF stop = {} THEN Len(s) + 1 ELSE CHOOSE j \in stop : \A m \in stop : j <= m
        next == IF s[i] = "0" THEN i + 1 ELSE run
    IN  ParseOk(JInt(SubSeq(s, i, next - 1)), next)

\* dict[key] = val: a repeated key keeps its place and takes the last value.
DictPut(ks, vals, key, val) ==
    IF \E m \in 1..Len(ks) : ks[m] = key
    THEN [ks |-> ks, vals |-> [vals EXCEPT ![CHOOSE m \in 1..Len(ks) : ks[m] = key] = val]]
    ELSE [ks |-> Append(ks, key), vals |-> Append(vals, val)]

RECURSIVE ParseValue(_, _)
RECURSIVE ParseElements(_, _, _)
RECURSIVE ParseMembers(_, _, _, _)

\* The rest of an array, a value expected at position i.
ParseElements(s, i, acc) ==
    LET r == ParseValue(s, i)
        k == SkipWs(s, r.i)
    IN  IF ~r.ok \/ k > Len(s) THEN ParseFail
        ELSE IF s[k] = "," THEN ParseElements(s, SkipWs(s, k + 1), Append(acc, r.v))
        ELSE IF s[k] = "]" THEN ParseOk(JList(Append(acc, r.v)), k + 1)
        ELSE ParseFail

\* The rest of an object, a key expected at position i.
ParseMembers(s, i, ks, vals) ==
    IF i > Len(s) \/ s[i] # "\"" THEN ParseFail
    ELSE LET key   == ParseString(s, i)
             colon == SkipWs(s, key.i)
         IN  IF ~key.ok \/ colon > Len(s) \/ s[colon] # ":" THEN ParseFail
             ELSE LET r    == ParseValue(s, SkipWs(s, colon + 1))
                      k    == SkipWs(s, r.i)
                      put  == DictPut(ks, vals, key.v.s, r.v)
                  IN  IF ~r.ok \/ k > Len(s) THEN ParseFail
                      ELSE IF s[k] = "," THEN ParseMembers(s, SkipWs(s, k + 1), put.ks, put.vals)
                      ELSE IF s[k] = "}" THEN ParseOk(JDict(put.ks, put.vals), k + 1)
                      ELSE ParseFail

\* A JSON value opening at position i.
ParseValue(s, i) ==
    IF i > Len(s) THEN ParseFail
    ELSE IF s[i] = "{"
         THEN LET j == SkipWs(s, i + 1)
              IN  IF j <= Len(s) /\ s[j] = "}" THEN ParseOk(JDict(<<>>, <<>>), j + 1)
                  ELSE ParseMembers(s, j, <<>>, <<>>)
    ELSE IF s[i] = "["
         THEN LET j == SkipWs(s, i + 1)
              IN  IF j <= Len(s) /\ s[j] = "]" THEN ParseOk(JList(<<>>), j + 1)
                  ELSE ParseElements(s, j, <<>>)
    ELSE IF s[i] = "\"" THEN ParseString(s, i)
    ELSE IF s[i] \in Digits THEN ParseNumber(s, i)
    ELSE IF IsAt(s, <<"t", "r", "u", "e">>, i - 1) THEN ParseOk(JTrue, i + 4)
    ELSE IF IsAt(s, <<"f", "a", "l", "s", "e">>, i - 1) THEN ParseOk(JFalse, i + 5)
    ELSE IF IsAt(s, <<"n", "u", "l", "l">>, i - 1) THEN ParseOk(JNone, i + 4)
    ELSE ParseFail

\* json.loads(s): ok is FALSE where the code gets json.JSONDecodeError.
JsonLoads(s) ==
    LET r == ParseValue(s, SkipWs(s, 1))
    IN  IF r.ok /\ SkipWs(s, r.i) > Len(s)
        THEN [ok |-> TRUE, v |-> r.v]
        ELSE [ok |-> FALSE, v |-> JNone]

\* bool(v)
Truthy(v) ==
    CASE v.k = "None" -> FALSE
      [] v.k = "bool" -> v.s # <<>>
      [] v.k = "int"  -> v.s # <<"0">>
      [] v.k = "str"  -> v.s # <<>>
      [] v.k = "list" -> v.items # <<>>
      [] v.k = "dict" -> v.keys # <<>>

\* key in d, for a dict d
HasKey(d, key) == \E m \in 1..Len(d.keys) : d.keys[m] = key

\* d.get(key, default), for a dict d
DictGet(d, key, default) ==
    IF HasKey(d, key) THEN d.items[CHOOSE m \in 1..Len(d.keys) : d.keys[m] = key]
    ELSE default

\* ord(c), for the characters of a date
CodePoint(c) ==
    CASE c = "-" -> 45
      [] c = "0" -> 48 [] c = "1" -> 49 [] c = "2" -> 50 [] c = "3" -> 51 [] c = "4" -> 52
      [] c = "5" -> 53 [] c = "6" -> 54 [] c = "7" -> 55 [] c = "8" -> 56 [] c = "9" -> 57

\* The decimal digits of a natural number.
RECURSIVE DigitsOf(_)
DigitsOf(n) ==
    LET last == CHOOSE c \in Digits : CodePoint(c) - 48 = n % 10
    IN  IF n < 10 THEN <<last>> ELSE Append(DigitsOf(n \div 10), last)

(***************************************************************************)
(* String literals of the program                                          *)
(***************************************************************************)

arxiv ==
    <<"a", "r", "x", "i", "v">>

openalex ==
    <<"o", "p", "e", "n", "a", "l", "e", "x">>

dblp ==
    <<"d", "b", "l", "p">>

europepmc ==
    <<"e", "u", "r", "o", "p", "e", "p", "m", "c">>

web ==
    <<"w", "e", "b">>

news ==
    <<"n", "e", "w", "s">>

semantic_scholar ==
    <<"s", "e", "m", "a", "n", "t", "i", "c", "_", "s", "c", "h", "o", "l", "a", "r">>

hackernews ==
    <<"h", "a", "c", "k", "e", "r", "n", "e", "w", "s">>

reddit ==
    <<"r", "e", "d", "d", "i", "t">>

KeyRelevant ==
    <<"r", "e", "l", "e", "v", "a", "n", "t">>

KeyReason ==
    <<"r", "e", "a", "s", "o", "n">>

KeySelected ==
    <<"s", "e", "l", "e", "c", "t", "e", "d">>

KeyReasoning ==
    <<"r", "e", "a", "s", "o", "n", "i", "n", "g">>

KeyFallback ==
    <<"f", "a", "l", "l", "b", "a", "c", "k">>

KeyError ==
    <<"e", "r", "r", "o", "r">>

JsonFence ==
    <<"U+0060", "U+0060", "U+0060", "j", "s", "o", "n">>

TrueWord ==
    <<"t", "r", "u", "e">>

RelevantTruePattern ==
    <<"\"", "r", "e", "l", "e", "v", "a", "n", "t", "\"", ":", " ", "t", "r", "u", "e">>

NoReasonProvided ==
    <<"N", "o", " ", "r", "e", "a", "s", "o", "n", " ", "p", "r", "o", "v", "i", "d", "e", "d">>

KeywordMatchFallback ==
    <<"K", "e", "y", "w", "o", "r", "d", " ", "m", "a", "t", "c", "h", " ", "f", "a", "l", "l",
      "b", "a", "c", "k">>

ErrorPrefix ==
    <<"E", "r", "r", "o", "r", ":", " ">>

TooFewSources ==
    <<"L", "L", "M", " ", "s", "e", "l", "e", "c", "t", "e", "d", " ", "t", "o", "o", " ", "f",
      "e", "w", " ", "s", "o", "u", "r", "c", "e", "s">>

JsonParseFailed ==
    <<"J", "S", "O", "N", " ", "p", "a", "r", "s", "e", " ", "f", "a", "i", "l", "e", "d">>

NoChoicesMsg ==
    <<"O", "l", "l", "a", "m", "a", " ", "A", "P", "I", " ", "r", "e", "t", "u", "r", "n", "e",
      "d", " ", "n", "o", " ", "c", "h", "o", "i", "c", "e", "s", " ", "i", "n", " ", "r", "e",
      "s", "p", "o", "n", "s", "e">>

EmptyContentMsg ==
    <<"O", "l", "l", "a", "m", "a", " ", "A", "P", "I", " ", "r", "e", "t", "u", "r", "n", "e",
      "d", " ", "e", "m", "p", "t", "y", " ", "c", "o", "n", "t", "e", "n", "t">>

AnalyzeFailedPrefix ==
    <<"F", "a", "i", "l", "e", "d", " ", "t", "o", " ", "a", "n", "a", "l", "y", "z", "e", " ",
      "r", "e", "s", "e", "a", "r", "c", "h", " ", "w", "i", "t", "h", " ", "L", "L", "M", ":",
      " ">>

NoResultsPrefix ==
    <<"N", "o", " ", "r", "e", "s", "e", "a", "r", "c", "h", " ", "r", "e", "s", "u", "l", "t",
      "s", " ", "f", "o", "u", "n", "d", " ", "f", "o", "r", " ", "t", "h", "e", " ", "t", "o",
      "p", "i", "c", ":", " ">>

NoDataInsight ==
    <<"N", "o", " ", "d", "a", "t", "a", " ", "a", "v", "a", "i", "l", "a", "b", "l", "e", " ",
      "f", "o", "r", " ", "a", "n", "a", "l", "y", "s", "i", "s">>

PlaceholderInsight ==
    <<"A", "n", "a", "l", "y", "s", "i", "s", " ", "p", "r", "o", "v", "i", "d", "e", "d", " ",
      "i", "n", " ", "s", "u", "m", "m", "a", "r", "y">>

NoAttributeGet ==
    <<" ", "o", "b", "j", "e", "c", "t", " ", "h", "a", "s", " ", "n", "o", " ", "a", "t", "t",
      "r", "i", "b", "u", "t", "e", " ", "'", "g", "e", "t", "'">>

NotIterable ==
    <<" ", "o", "b", "j", "e", "c", "t", " ", "i", "s", " ", "n", "o", "t", " ", "i", "t", "e",
      "r", "a", "b", "l", "e">>

BadReasoningLookup ==
    <<"r", "e", "a", "s", "o", "n", "i", "n", "g", " ", "d", "o", "e", "s", " ", "n", "o", "t",
      " ", "s", "u", "p", "p", "o", "r", "t", " ", "t", "h", "e", " ", "l", "o", "o", "k", "u",
      "p">>

ExecutiveSummaryWord ==
    <<"e", "x", "e", "c", "u", "t", "i", "v", "e", " ", "s", "u", "m", "m", "a", "r", "y">>

SummaryWord ==
    <<"s", "u", "m", "m", "a", "r", "y">>

KeyInsightsWord ==
    <<"k", "e", "y", " ", "i", "n", "s", "i", "g", "h", "t", "s">>

InsightsWord ==
    <<"i", "n", "s", "i", "g", "h", "t", "s">>

NotableFindingsWord ==
    <<"n", "o", "t", "a", "b", "l", "e", " ", "f", "i", "n", "d", "i", "n", "g", "s">>

Ellipsis ==
    <<".", ".", ".">>

ValidationErrorMsg ==
    <<"v", "a", "l", "i", "d", "a", "t", "i", "o", "n", " ", "e", "r", "r", "o", "r", " ", "f",
      "o", "r", " ", "R", "e", "s", "e", "a", "r", "c", "h", "Q", "u", "e", "r", "y">>

TypeBool ==
    <<"'", "b", "o", "o", "l", "'">>

TypeNone ==
    <<"'", "N", "o", "n", "e", "T", "y", "p", "e", "'">>

TypeInt ==
    <<"'", "i", "n", "t", "'">>

TypeStr ==
    <<"'", "s", "t", "r", "'">>

TypeList ==
    <<"'", "l", "i", "s", "t", "'">>

TypeDict ==
    <<"'", "d", "i", "c", "t", "'">>

Topic ==
    <<"t", "e", "s", "t", " ", "t", "o", "p", "i", "c">>

(***************************************************************************)
(* The chat-completion call.  What the endpoint does is an input: it       *)
(* raises (msg is the text of the exception), or it answers with a list of *)
(* choices, each the content of one message (<<>> for None or "").         *)
(***************************************************************************)

ApiRaises(msg) == [raises |-> TRUE, msg |-> msg, choices |-> <<>>]

ApiAnswers(contents) == [raises |-> FALSE, msg |-> <<>>, choices |-> contents]

\* No call is in progress and none is remembered.
NoResponse == ApiAnswers(<<>>)

Raise(msg) == [exc |-> TRUE, msg |-> msg, text |-> <<>>]

Return(text) == [exc |-> FALSE, msg |-> <<>>, text |-> text]

\* source_selector._call_ollama: the content of the first choice, ValueError without one.
_call_ollama(response) ==
    IF response.raises THEN Raise(response.msg)
    ELSE IF response.choices = <<>> THEN Raise(NoChoicesMsg)
    ELSE IF response.choices[1] = <<>> THEN Raise(EmptyContentMsg)
    ELSE Return(response.choices[1])

\* filter._call_ollama_judge
_call_ollama_judge(response) ==
    IF response.raises THEN Raise(response.msg)
    ELSE IF response.choices = <<>> THEN Raise(NoChoicesMsg)
    ELSE IF response.choices[1] = <<>> THEN Raise(EmptyContentMsg)
    ELSE Return(response.choices[1])

\* analyzer._call_ollama
analyzer_call_ollama(response) ==
    IF response.raises THEN Raise(response.msg)
    ELSE IF response.choices = <<>> THEN Raise(NoChoicesMsg)
    ELSE IF response.choices[1] = <<>> THEN Raise(EmptyContentMsg)
    ELSE Return(response.choices[1])

\* The text handed to json.loads: the reply stripped and, when it holds a ```json
\* fence, cut from its first "{" to its last "}".
ExtractJson(response_text) ==
    LET text == Strip(response_text)
    IN  IF Contains(text, JsonFence)
        THEN PySlice(text, Find(text, <<"{">>), RFind(text, <<"}">>) + 1)
        ELSE text

\* type(v).__name__, quoted as in an AttributeError or TypeError message.
TypeName(v) ==
    CASE v.k = "None" -> TypeNone
      [] v.k = "bool" -> TypeBool
      [] v.k = "int"  -> TypeInt
      [] v.k = "str"  -> TypeStr
      [] v.k = "list" -> TypeList
      [] v.k = "dict" -> TypeDict

(***************************************************************************)
(* Relevance filter (synthesis/filter.py)                                  *)
(***************************************************************************)

\* What _judge_relevance does: it returns (is_relevant, reason), or raises.
Verdict(relevant, why, exc) == [is_relevant |-> relevant, reason |-> why, raised |-> exc]

\* A decode failure that keeps the result whatever the text says.
KeywordKeeps(text) == Verdict(JTrue, JStr(KeywordMatchFallback), FALSE)

\* The except json.JSONDecodeError branch: the keyword scan of the text that failed to parse.
KeywordFallback(text) ==
    LET lower_response == Lower(text)
    IN  IF Contains(lower_response, TrueWord) \/ Contains(lower_response, RelevantTruePattern)
        THEN Verdict(JTrue, JStr(KeywordMatchFallback), FALSE)
        ELSE Verdict(JFalse, JStr(KeywordMatchFallback), FALSE)

\* A judge without its outer except: the exception leaves _judge_relevance.
JudgeRaises(msg) == Verdict(JNone, JStr(msg), TRUE)

\* The outer except Exception branch: keep the result.
JudgeError(msg) == Verdict(JTrue, JStr(ErrorPrefix \o msg), FALSE)

\* _judge_relevance(topic, result), given what the endpoint does for this call.
_judge_relevance(response) ==
    LET call == _call_ollama_judge(response)
    IN  IF call.exc THEN JudgeError(call.msg)
        ELSE LET text     == ExtractJson(call.text)
                 judgment == JsonLoads(text)
             IN  IF ~judgment.ok THEN KeywordFallback(text)
                 ELSE IF judgment.v.k # "dict"
                      THEN JudgeError(TypeName(judgment.v) \o NoAttributeGet)
                 ELSE Verdict(DictGet(judgment.v, KeyRelevant, JFalse),
                              DictGet(judgment.v, KeyReason, JStr(NoReasonProvided)), FALSE)

\* The statistics filter_relevant_results returns.
Stats(total, relevant, filtered) ==
    [total |-> total, relevant |-> relevant, filtered_out |-> filtered]

(***************************************************************************)
(* Source selector (synthesis/source_selector.py)                          *)
(***************************************************************************)

\* Fewer valid names than this, out of at least this many candidates, is a fallback.
MinSelected == 3

Selection(sources, why, exc) == [selected |-> sources, reasoning |-> why, raised |-> exc]

\* The values a for loop over v visits; a bool, an int or None cannot be iterated.
Iterable(v) == v.k \in {"str", "list", "dict"}

Iterate(v) ==
    CASE v.k = "list" -> v.items
      [] v.k = "dict" -> [m \in 1..Len(v.keys) |-> JStr(v.keys[m])]
      [] v.k = "str"  -> [m \in 1..Len(v.s) |-> JStr(<<v.s[m]>>)]
      [] OTHER        -> <<>>

\* s in available_sources, for a decoded value s and a list of str.
InSources(v, available_sources) ==
    v.k = "str" /\ \E m \in 1..Len(available_sources) : available_sources[m] = v.s

\* A validation that keeps every name the model returned, known or not.
AnyNames(elems, available_sources) ==
    LET IsName(v) == v.k = "str"
        names == SelectSeq(elems, IsName)
    IN  [m \in 1..Len(names) |-> names[m].s]

RECURSIVE ValidNames(_, _)
\* [s for s in selected if s in available_sources]
ValidNames(elems, available_sources) ==
    IF elems = <<>> THEN <<>>
    ELSE IF InSources(Head(elems), available_sources)
         THEN <<Head(elems).s>> \o ValidNames(Tail(elems), available_sources)
         ELSE ValidNames(Tail(elems), available_sources)

\* Whether the verbose listing of the reasons raises: "source in reasoning" needs a
\* container, and reasoning[source] needs a dict once the test succeeds.
ListingRaises(selected, reasoning) ==
    /\ selected # <<>>
    /\ \/ reasoning.k \in {"None", "bool", "int"}
       \/ /\ reasoning.k = "list"
          /\ \E m \in 1..Len(selected) : \E n \in 1..Len(reasoning.items) :
                reasoning.items[n] = JStr(selected[m])
       \/ /\ reasoning.k = "str"
          /\ \E m \in 1..Len(selected) : Contains(reasoning.s, selected[m])

\* The except json.JSONDecodeError branch.
SelectParseFailed(available_sources) ==
    Selection(available_sources, JDict(<<KeyError>>, <<JStr(JsonParseFailed)>>), FALSE)

\* A selector without its outer except: the exception leaves select_sources.
SelectRaises(available_sources, msg) == Selection(<<>>, JDict(<<>>, <<>>), TRUE)

\* The outer except Exception branch.
SelectFailed(available_sources, msg) ==
    Selection(available_sources, JDict(<<KeyError>>, <<JStr(msg)>>), FALSE)

\* The "ensure at least 3 sources" branch.
SelectFallback(available_sources) ==
    Selection(available_sources, JDict(<<KeyFallback>>, <<JStr(TooFewSources)>>), FALSE)

\* select_sources(topic, available_sources, verbose), given what the endpoint does.
select_sources(available_sources, verbose, response) ==
    IF available_sources = <<>> THEN Selection(<<>>, JDict(<<>>, <<>>), FALSE)
    ELSE LET call == _call_ollama(response)
         IN  IF call.exc THEN SelectFailed(available_sources, call.msg)
             ELSE LET result == JsonLoads(ExtractJson(call.text))
                  IN  IF ~result.ok THEN SelectParseFailed(available_sources)
                      ELSE IF result.v.k # "dict"
                           THEN SelectFailed(available_sources, TypeName(result.v) \o NoAttributeGet)
                      ELSE LET chosen    == DictGet(result.v, KeySelected, JList(<<>>))
                               reasoning == DictGet(result.v, KeyReasoning, JDict(<<>>, <<>>))
                               selected  == ValidNames(Iterate(chosen), available_sources)
                           IN  IF ~Iterable(chosen)
                               THEN SelectFailed(available_sources, TypeName(chosen) \o NotIterable)
                               ELSE IF Len(selected) < MinSelected
                                       /\ Len(available_sources) >= MinSelected
                                    THEN SelectFallback(available_sources)
                               ELSE IF verbose /\ ListingRaises(selected, reasoning)
                                    THEN SelectFailed(available_sources, BadReasoningLookup)
                               ELSE Selection(selected, reasoning, FALSE)

(***************************************************************************)
(* Analyzer (synthesis/analyzer.py)                                        *)
(***************************************************************************)

\* s.lstrip(chars)
LStrip(s, chars) ==
    LET keep == {i \in 1..Len(s) : s[i] \notin chars}
    IN  IF keep = {} THEN <<>>
        ELSE SubSeq(s, CHOOSE i \in keep : \A j \in keep : i <= j, Len(s))

RECURSIVE Join(_, _)
\* sep.join(parts)
Join(parts, sep) ==
    IF parts = <<>> THEN <<>>
    ELSE IF Len(parts) = 1 THEN parts[1]
    ELSE parts[1] \o sep \o Join(Tail(parts), sep)

\* The characters of lstrip("•-*123456789. "): the bullet is written "U+2022".
MarkerChars == {"U+2022", "-", "*", "1", "2", "3", "4", "5", "6", "7", "8", "9", ".", " "}

\* An insight line of a section must be longer than this once its marker is stripped.
MinInsightLen == 10

\* A line of the paragraph fallback must be longer than this to become an insight.
MinFallbackLen == 20

\* The summary falls back to this many characters of the reply.
SummaryCut == 800

\* At most this many insights are returned.
MaxInsights == 10

Parsed(summary_lines, insights) == [summary_lines |-> summary_lines, insights |-> insights]

IsSummaryHeader(lower) == Contains(lower, ExecutiveSummaryWord) \/ Contains(lower, SummaryWord)

IsInsightsHeader(lower) ==
    \/ Contains(lower, KeyInsightsWord)
    \/ Contains(lower, InsightsWord)
    \/ Contains(lower, NotableFindingsWord)

RECURSIVE StructuredParse(_, _, _, _, _)
\* The first loop of _parse_response, from line i on.
StructuredParse(lines, i, current_section, summary_lines, insights) ==
    IF i > Len(lines) THEN Parsed(summary_lines, insights)
    ELSE LET line    == Strip(lines[i])
             cleaned == LStrip(line, MarkerChars)
         IN  IF IsSummaryHeader(Lower(line))
             THEN StructuredParse(lines, i + 1, "summary", summary_lines, insights)
             ELSE IF IsInsightsHeader(Lower(line))
             THEN StructuredParse(lines, i + 1, "insights", summary_lines, insights)
             ELSE IF line = <<>> \/ line[1] = "#"
             THEN StructuredParse(lines, i + 1, current_section, summary_lines, insights)
             ELSE IF current_section = "summary"
             THEN StructuredParse(lines, i + 1, current_section, Append(summary_lines, line), insights)
             ELSE IF current_section = "insights" /\ Len(cleaned) > MinInsightLen
             THEN StructuredParse(lines, i + 1, current_section, summary_lines, Append(insights, cleaned))
             ELSE StructuredParse(lines, i + 1, current_section, summary_lines, insights)

RECURSIVE NonEmptyStripped(_)
\* [p.strip() for p in parts if p.strip()]
NonEmptyStripped(parts) ==
    IF parts = <<>> THEN <<>>
    ELSE IF Strip(Head(parts)) = <<>> THEN NonEmptyStripped(Tail(parts))
    ELSE <<Strip(Head(parts))>> \o NonEmptyStripped(Tail(parts))

RECURSIVE FallbackInsights(_)
\* The lines of the given lines that are long enough once stripped of their marker.
FallbackInsights(lines) ==
    IF lines = <<>> THEN <<>>
    ELSE LET cleaned == LStrip(Strip(Head(lines)), MarkerChars)
         IN  IF Len(cleaned) > MinFallbackLen
             THEN <<cleaned>> \o FallbackInsights(Tail(lines))
             ELSE FallbackInsights(Tail(lines))

RECURSIVE ParagraphInsights(_)
ParagraphInsights(paragraphs) ==
    IF paragraphs = <<>> THEN <<>>
    ELSE FallbackInsights(Split(Head(paragraphs), "\n")) \o ParagraphInsights(Tail(paragraphs))

\* The paragraph fallback of _parse_response.
ParagraphParse(response_text) ==
    LET paragraphs == NonEmptyStripped(SplitStr(response_text, <<"\n", "\n">>))
    IN  IF paragraphs = <<>> THEN Parsed(<<>>, <<>>)
        ELSE Parsed(<<Head(paragraphs)>>, ParagraphInsights(Tail(paragraphs)))

Analysis(summary, insights) == [summary |-> summary, insights |-> insights]

\* A parser that returns every insight it found.
_parse_uncapped(response_text) ==
    LET first  == StructuredParse(Split(response_text, "\n"), 1, "none", <<>>, <<>>)
        parsed == IF first.summary_lines = <<>> /\ first.insights = <<>>
                  THEN ParagraphParse(response_text)
                  ELSE first
        summary  == IF parsed.summary_lines # <<>>
                    THEN Join(parsed.summary_lines, <<" ">>)
                    ELSE PySlice(response_text, 0, SummaryCut) \o Ellipsis
    IN  Analysis(summary, IF parsed.insights = <<>> THEN <<PlaceholderInsight>> ELSE parsed.insights)

\* _parse_response(response_text)
_parse_response(response_text) ==
    LET first  == StructuredParse(Split(response_text, "\n"), 1, "none", <<>>, <<>>)
        parsed == IF first.summary_lines = <<>> /\ first.insights = <<>>
                  THEN ParagraphParse(response_text)
                  ELSE first
        summary  == IF parsed.summary_lines # <<>>
                    THEN Join(parsed.summary_lines, <<" ">>)
                    ELSE PySlice(response_text, 0, SummaryCut) \o Ellipsis
        insights == IF parsed.insights = <<>> THEN <<PlaceholderInsight>> ELSE parsed.insights
    IN  Analysis(summary, PySlice(insights, 0, MaxInsights))

\* What a call of analyze_research does: it returns value, or raises an exception with
\* text msg; called tells whether it called the model.
Analyzed(value, called) == [raised |-> FALSE, msg |-> <<>>, value |-> value, called |-> called]

AnalyzeRaises(msg) ==
    [raised |-> TRUE, msg |-> msg, value |-> Analysis(<<>>, <<>>), called |-> TRUE]

\* An analyzer that answers a failed call with the summary of an empty list.
analyze_swallowing(query, results, response) ==
    IF results = <<>> \/ analyzer_call_ollama(response).exc
    THEN Analyzed(Analysis(NoResultsPrefix \o query.topic, <<NoDataInsight>>), results # <<>>)
    ELSE Analyzed(_parse_response(analyzer_call_ollama(response).text), TRUE)

\* An analyzer without the test for an empty list.
analyze_unguarded(query, results, response) ==
    IF analyzer_call_ollama(response).exc
    THEN AnalyzeRaises(AnalyzeFailedPrefix \o analyzer_call_ollama(response).msg)
    ELSE Analyzed(_parse_response(analyzer_call_ollama(response).text), TRUE)

Unknown ==
    <<"U", "n", "k", "n", "o", "w", "n">>

PromptHead ==
    <<"Y", "o", "u", " ", "a", "r", "e", " ", "a", " ", "r", "e", "s", "e", "a", "r", "c", "h",
      " ", "a", "n", "a", "l", "y", "s", "t", " ", "t", "a", "s", "k", "e", "d", " ", "w", "i",
      "t", "h", " ", "s", "y", "n", "t", "h", "e", "s", "i", "z", "i", "n", "g", " ", "i", "n",
      "s", "i", "g", "h", "t", "s", " ", "f", "r", "o", "m", " ", "a", "c", "a", "d", "e", "m",
      "i", "c", " ", "p", "a", "p", "e", "r", "s", " ", "a", "n", "d", " ", "s", "o", "u", "r",
      "c", "e", "s", ".", "\n", "\n", "R", "e", "s", "e", "a", "r", "c", "h", " ", "T", "o",
      "p", "i", "c", ":", " ">>

PromptCollected ==
    <<"\n", "\n", "I", " ", "h", "a", "v", "e", " ", "c", "o", "l", "l", "e", "c", "t", "e",
      "d", " ">>

PromptTask ==
    <<" ", "r", "e", "s", "e", "a", "r", "c", "h", " ", "p", "a", "p", "e", "r", "s", " ", "a",
      "n", "d", " ", "s", "o", "u", "r", "c", "e", "s", " ", "o", "n", " ", "t", "h", "i", "s",
      " ", "t", "o", "p", "i", "c", ".", " ", "P", "l", "e", "a", "s", "e", " ", "a", "n", "a",
      "l", "y", "z", "e", " ", "t", "h", "e", "m", " ", "a", "n", "d", " ", "p", "r", "o", "v",
      "i", "d", "e", ":", "\n", "\n", "1", ".", " ", "*", "*", "E", "x", "e", "c", "u", "t",
      "i", "v", "e", " ", "S", "u", "m", "m", "a", "r", "y", "*", "*", ":", " ", "A", " ", "c",
      "o", "n", "c", "i", "s", "e", " ", "2", "-", "3", " ", "p", "a", "r", "a", "g", "r", "a",
      "p", "h", " ", "o", "v", "e", "r", "v", "i", "e", "w", " ", "o", "f", " ", "t", "h", "e",
      " ", "c", "u", "r", "r", "e", "n", "t", " ", "s", "t", "a", "t", "e", " ", "o", "f", " ",
      "r", "e", "s", "e", "a", "r", "c", "h", " ", "i", "n", " ", "t", "h", "i", "s", " ", "a",
      "r", "e", "a", "\n", "2", ".", " ", "*", "*", "K", "e", "y", " ", "I", "n", "s", "i",
      "g", "h", "t", "s", "*", "*", ":", " ", "5", "-", "7", " ", "s", "p", "e", "c", "i", "f",
      "i", "c", ",", " ", "a", "c", "t", "i", "o", "n", "a", "b", "l", "e", " ", "i", "n", "s",
      "i", "g", "h", "t", "s", " ", "o", "r", " ", "t", "r", "e", "n", "d", "s", " ", "y", "o",
      "u", " ", "o", "b", "s", "e", "r", "v", "e", " ", "f", "r", "o", "m", " ", "t", "h", "i",
      "s", " ", "r", "e", "s", "e", "a", "r", "c", "h", "\n", "3", ".", " ", "*", "*", "N",
      "o", "t", "a", "b", "l", "e", " ", "F", "i", "n", "d", "i", "n", "g", "s", "*", "*", ":",
      " ", "A", "n", "y", " ", "p", "a", "r", "t", "i", "c", "u", "l", "a", "r", "l", "y", " ",
      "i", "n", "t", "e", "r", "e", "s", "t", "i", "n", "g", " ", "o", "r", " ", "s", "i", "g",
      "n", "i", "f", "i", "c", "a", "n", "t", " ", "f", "i", "n", "d", "i", "n", "g", "s", " ",
      "t", "h", "a", "t", " ", "s", "t", "a", "n", "d", " ", "o", "u", "t", "\n", "\n", "R",
      "e", "s", "e", "a", "r", "c", "h", " ", "P", "a", "p", "e", "r", "s", ":", "\n", "\n">>

PromptTail ==
    <<"\n", "\n", "P", "l", "e", "a", "s", "e", " ", "p", "r", "o", "v", "i", "d", "e", " ",
      "y", "o", "u", "r", " ", "a", "n", "a", "l", "y", "s", "i", "s", " ", "i", "n", " ", "a",
      " ", "c", "l", "e", "a", "r", ",", " ", "s", "t", "r", "u", "c", "t", "u", "r", "e", "d",
      " ", "f", "o", "r", "m", "a", "t", ".">>

PaperLabel ==
    <<"\n", "P", "a", "p", "e", "r", " ">>

TitleLabel ==
    <<":", "\n", "T", "i", "t", "l", "e", ":", " ">>

AuthorsLabel ==
    <<"\n", "A", "u", "t", "h", "o", "r", "s", ":", " ">>

DateLabel ==
    <<"\n", "D", "a", "t", "e", ":", " ">>

SourceLabel ==
    <<"\n", "S", "o", "u", "r", "c", "e", ":", " ">>

AbstractLabel ==
    <<"\n", "A", "b", "s", "t", "r", "a", "c", "t", ":", " ">>

UrlLabel ==
    <<".", ".", ".", "\n", "U", "R", "L", ":", " ">>

ContextSeparator ==
    <<"\n", "\n", "-", "-", "-", "\n", "\n">>

EtAl ==
    <<" ", "e", "t", " ", "a", "l", ".">>

\* analyzer._build_research_context, for results whose authors is a list
_build_research_context(results) ==
    LET authors_str(result) ==
            (IF result.authors # <<>> THEN Join(PySlice(result.authors, 0, 3), <<",", " ">>)
             ELSE Unknown)
            \o (IF Len(result.authors) > 3 THEN EtAl ELSE <<>>)
        part(idx) ==
            Strip(PaperLabel \o DigitsOf(idx) \o TitleLabel \o results[idx].title
                  \o AuthorsLabel \o authors_str(results[idx])
                  \o DateLabel \o results[idx].published_date
                  \o SourceLabel \o results[idx].source
                  \o AbstractLabel \o PySlice(results[idx].abstract, 0, 500)
                  \o UrlLabel \o results[idx].url \o <<"\n">>)
    IN  Join([idx \in 1..Len(results) |-> part(idx)], ContextSeparator)

\* The prompt analyze_research hands to _call_ollama.
AnalyzerPrompt(query, results) ==
    PromptHead \o query.topic \o PromptCollected \o DigitsOf(Len(results)) \o PromptTask
    \o _build_research_context(results) \o PromptTail

\* analyze_research(query, results), given what the endpoint does.
analyze_research(query, results, response) ==
    IF results = <<>>
    THEN Analyzed(Analysis(NoResultsPrefix \o query.topic, <<NoDataInsight>>), FALSE)
    ELSE LET call == analyzer_call_ollama(response)
         IN  IF call.exc THEN AnalyzeRaises(AnalyzeFailedPrefix \o call.msg)
             ELSE Analyzed(_parse_response(call.text), TRUE)

(***************************************************************************)
(* Inputs: the texts a model replies with, and the rest of the environment *)
(***************************************************************************)

ApiErrorMsg ==
    <<"A", "P", "I", " ", "E", "r", "r", "o", "r">>

SaveFailedMsg ==
    <<"c", "a", "n", "n", "o", "t", " ", "w", "r", "i", "t", "e", " ", "t", "h", "e", " ", "r",
      "e", "p", "o", "r", "t">>

PaperA ==
    <<"P", "a", "p", "e", "r", " ", "A">>

PaperB ==
    <<"P", "a", "p", "e", "r", " ", "B">>

ExcludeWebReddit ==
    <<" ", "w", "e", "b", " ", ",", "r", "e", "d", "d", "i", "t">>

JudgeTrue ==
    <<"{", "\"", "r", "e", "l", "e", "v", "a", "n", "t", "\"", ":", " ", "t", "r", "u", "e",
      ",", " ", "\"", "r", "e", "a", "s", "o", "n", "\"", ":", " ", "\"", "o", "k", "\"", "}">>

JudgeFalse ==
    <<"{", "\"", "r", "e", "l", "e", "v", "a", "n", "t", "\"", ":", " ", "f", "a", "l", "s",
      "e", ",", " ", "\"", "r", "e", "a", "s", "o", "n", "\"", ":", " ", "\"", "n", "o", "\"",
      "}">>

JudgeFencedFalse ==
    <<"U+0060", "U+0060", "U+0060", "j", "s", "o", "n", "\n", "{", "\"", "r", "e", "l", "e",
      "v", "a", "n", "t", "\"", ":", " ", "f", "a", "l", "s", "e", ",", " ", "\"", "r", "e",
      "a", "s", "o", "n", "\"", ":", " ", "\"", "n", "o", "\"", "}", "\n", "U+0060", "U+0060",
      "U+0060">>

JudgeFencedTrue ==
    <<"S", "u", "r", "e", ".", "\n", "U+0060", "U+0060", "U+0060", "j", "s", "o", "n", "\n",
      "{", "\"", "r", "e", "l", "e", "v", "a", "n", "t", "\"", ":", " ", "t", "r", "u", "e",
      "}", "\n", "U+0060", "U+0060", "U+0060">>

JudgeProse ==
    <<"Y", "e", "s", ",", " ", "t", "h", "i", "s", " ", "i", "s", " ", "r", "e", "l", "e", "v",
      "a", "n", "t", " ", "b", "e", "c", "a", "u", "s", "e", ".", ".", ".">>

JudgeUpperTrue ==
    <<"T", "R", "U", "E">>

JudgeBareTrue ==
    <<"t", "r", "u", "e">>

JudgeStringFalse ==
    <<"{", "\"", "r", "e", "l", "e", "v", "a", "n", "t", "\"", ":", " ", "\"", "f", "a", "l",
      "s", "e", "\"", "}">>

JudgeNoField ==
    <<"{", "\"", "r", "e", "a", "s", "o", "n", "\"", ":", " ", "\"", "o", "k", "\"", "}">>

JudgeNull ==
    <<"{", "\"", "r", "e", "l", "e", "v", "a", "n", "t", "\"", ":", " ", "n", "u", "l", "l", "}">>

JudgeZero ==
    <<"{", "\"", "r", "e", "l", "e", "v", "a", "n", "t", "\"", ":", " ", "0", "}">>

JudgeTrueInReason ==
    <<"{", "\"", "r", "e", "l", "e", "v", "a", "n", "t", "\"", ":", " ", "f", "a", "l", "s",
      "e", ",", " ", "\"", "r", "e", "a", "s", "o", "n", "\"", ":", " ", "\"", "n", "o", "t",
      " ", "t", "r", "u", "e", "\"", "}">>

JudgeBrokenTrueInReason ==
    <<"{", "\"", "r", "e", "l", "e", "v", "a", "n", "t", "\"", ":", " ", "f", "a", "l", "s",
      "e", ",", " ", "\"", "r", "e", "a", "s", "o", "n", "\"", ":", " ", "\"", "n", "o", "t",
      " ", "t", "r", "u", "e", "\"">>

JudgeBrokenFalse ==
    <<"{", "\"", "r", "e", "l", "e", "v", "a", "n", "t", "\"", ":", " ", "f", "a", "l", "s", "e">>

JudgeFenceNoBraces ==
    <<"U+0060", "U+0060", "U+0060", "j", "s", "o", "n", " ", "t", "r", "u", "e">>

JudgeList ==
    <<"[", "1", "]">>

JudgePadded ==
    <<" ", " ", "{", "\"", "r", "e", "l", "e", "v", "a", "n", "t", "\"", ":", " ", "t", "r",
      "u", "e", "}", "\n">>

JudgeProseThenTrue ==
    <<"A", "n", "s", "w", "e", "r", ":", " ", "{", "\"", "r", "e", "l", "e", "v", "a", "n",
      "t", "\"", ":", " ", "t", "r", "u", "e", "}">>

JudgeProseThenFalse ==
    <<"A", "n", "s", "w", "e", "r", ":", " ", "{", "\"", "r", "e", "l", "e", "v", "a", "n",
      "t", "\"", ":", " ", "f", "a", "l", "s", "e", "}">>

SelThree ==
    <<"{", "\"", "s", "e", "l", "e", "c", "t", "e", "d", "\"", ":", " ", "[", "\"", "n", "e",
      "w", "s", "\"", ",", " ", "\"", "w", "e", "b", "\"", ",", " ", "\"", "a", "r", "x", "i",
      "v", "\"", "]", ",", " ", "\"", "r", "e", "a", "s", "o", "n", "i", "n", "g", "\"", ":",
      " ", "{", "\"", "n", "e", "w", "s", "\"", ":", " ", "\"", "r", "\"", "}", "}">>

SelTwo ==
    <<"{", "\"", "s", "e", "l", "e", "c", "t", "e", "d", "\"", ":", " ", "[", "\"", "a", "r",
      "x", "i", "v", "\"", ",", " ", "\"", "w", "e", "b", "\"", "]", ",", " ", "\"", "r", "e",
      "a", "s", "o", "n", "i", "n", "g", "\"", ":", " ", "{", "\"", "a", "r", "x", "i", "v",
      "\"", ":", " ", "\"", "r", "\"", "}", "}">>

SelTwoFenced ==
    <<"U+0060", "U+0060", "U+0060", "j", "s", "o", "n", "\n", "{", "\"", "s", "e", "l", "e",
      "c", "t", "e", "d", "\"", ":", " ", "[", "\"", "n", "e", "w", "s", "\"", ",", " ", "\"",
      "w", "e", "b", "\"", "]", ",", " ", "\"", "r", "e", "a", "s", "o", "n", "i", "n", "g",
      "\"", ":", " ", "{", "}", "}", "\n", "U+0060", "U+0060", "U+0060">>

SelOne ==
    <<"{", "\"", "s", "e", "l", "e", "c", "t", "e", "d", "\"", ":", " ", "[", "\"", "a", "r",
      "x", "i", "v", "\"", "]", ",", " ", "\"", "r", "e", "a", "s", "o", "n", "i", "n", "g",
      "\"", ":", " ", "{", "\"", "a", "r", "x", "i", "v", "\"", ":", " ", "\"", "O", "n", "l",
      "y", " ", "r", "e", "l", "e", "v", "a", "n", "t", "\"", "}", "}">>

SelInvalidName ==
    <<"{", "\"", "s", "e", "l", "e", "c", "t", "e", "d", "\"", ":", " ", "[", "\"", "a", "r",
      "x", "i", "v", "\"", ",", " ", "\"", "i", "n", "v", "a", "l", "i", "d", "_", "s", "o",
      "u", "r", "c", "e", "\"", ",", " ", "\"", "w", "e", "b", "\"", "]", "}">>

SelNotJson ==
    <<"T", "h", "i", "s", " ", "i", "s", " ", "n", "o", "t", " ", "v", "a", "l", "i", "d", " ",
      "J", "S", "O", "N", " ", "{", "i", "n", "c", "o", "m", "p", "l", "e", "t", "e">>

SelDuplicates ==
    <<"{", "\"", "s", "e", "l", "e", "c", "t", "e", "d", "\"", ":", " ", "[", "\"", "a", "r",
      "x", "i", "v", "\"", ",", " ", "\"", "a", "r", "x", "i", "v", "\"", ",", " ", "\"", "a",
      "r", "x", "i", "v", "\"", "]", "}">>

SelString ==
    <<"{", "\"", "s", "e", "l", "e", "c", "t", "e", "d", "\"", ":", " ", "\"", "a", "r", "x",
      "i", "v", "\"", "}">>

SelNull ==
    <<"{", "\"", "s", "e", "l", "e", "c", "t", "e", "d", "\"", ":", " ", "n", "u", "l", "l", "}">>

SelNoField ==
    <<"{", "\"", "r", "e", "a", "s", "o", "n", "i", "n", "g", "\"", ":", " ", "{", "}", "}">>

SelList ==
    <<"[", "\"", "a", "r", "x", "i", "v", "\"", ",", " ", "\"", "w", "e", "b", "\"", "]">>

SelReasoningInt ==
    <<"{", "\"", "s", "e", "l", "e", "c", "t", "e", "d", "\"", ":", " ", "[", "\"", "a", "r",
      "x", "i", "v", "\"", ",", " ", "\"", "w", "e", "b", "\"", ",", " ", "\"", "n", "e", "w",
      "s", "\"", "]", ",", " ", "\"", "r", "e", "a", "s", "o", "n", "i", "n", "g", "\"", ":",
      " ", "5", "}">>

SelReasoningStr ==
    <<"{", "\"", "s", "e", "l", "e", "c", "t", "e", "d", "\"", ":", " ", "[", "\"", "w", "e",
      "b", "\"", ",", " ", "\"", "a", "r", "x", "i", "v", "\"", "]", ",", " ", "\"", "r", "e",
      "a", "s", "o", "n", "i", "n", "g", "\"", ":", " ", "\"", "a", "r", "x", "i", "v", " ",
      "f", "i", "r", "s", "t", "\"", "}">>

SelDictSelected ==
    <<"{", "\"", "s", "e", "l", "e", "c", "t", "e", "d", "\"", ":", " ", "{", "\"", "w", "e",
      "b", "\"", ":", " ", "1", ",", " ", "\"", "n", "e", "w", "s", "\"", ":", " ", "2", ",",
      " ", "\"", "a", "r", "x", "i", "v", "\"", ":", " ", "3", "}", "}">>

SelFenceNoBraces ==
    <<"U+0060", "U+0060", "U+0060", "j", "s", "o", "n", " ", "n", "o", "n", "e">>

AnStructured ==
    <<"#", "#", " ", "S", "u", "m", "m", "a", "r", "y", "\n", "T", "e", "s", "t", " ", "s",
      "u", "m", "m", "a", "r", "y", ".", "\n", "#", "#", " ", "I", "n", "s", "i", "g", "h",
      "t", "s", "\n", "1", ".", " ", "T", "e", "s", "t", " ", "i", "n", "s", "i", "g", "h",
      "t", " ", "n", "u", "m", "b", "e", "r", " ", "o", "n", "e", " ", "h", "e", "r", "e">>

AnShort ==
    <<"S", "h", "o", "r", "t", ".">>

AnParagraphs ==
    <<"O", "v", "e", "r", "v", "i", "e", "w", " ", "t", "e", "x", "t", ".", "\n", "\n", "-",
      " ", "A", " ", "f", "i", "r", "s", "t", " ", "f", "i", "n", "d", "i", "n", "g", " ", "t",
      "h", "a", "t", " ", "i", "s", " ", "l", "o", "n", "g", " ", "e", "n", "o", "u", "g", "h",
      "\n", "-", " ", "t", "i", "n", "y">>

AnNumbered ==
    <<"K", "e", "y", " ", "I", "n", "s", "i", "g", "h", "t", "s", "\n", "1", "0", ".", " ",
      "t", "e", "n", "t", "h", " ", "i", "n", "s", "i", "g", "h", "t", " ", "i", "s", " ", "l",
      "o", "n", "g", " ", "e", "n", "o", "u", "g", "h", "\n", "2", ".", " ", "s", "e", "c",
      "o", "n", "d", " ", "i", "n", "s", "i", "g", "h", "t", " ", "i", "s", " ", "l", "o", "n",
      "g", " ", "e", "n", "o", "u", "g", "h">>

AnEleven ==
    <<"K", "e", "y", " ", "I", "n", "s", "i", "g", "h", "t", "s", "\n", "-", " ", "I", "n",
      "s", "i", "g", "h", "t", " ", "A", " ", "i", "s", " ", "l", "o", "n", "g", " ", "e", "n",
      "o", "u", "g", "h", "\n", "-", " ", "I", "n", "s", "i", "g", "h", "t", " ", "B", " ",
      "i", "s", " ", "l", "o", "n", "g", " ", "e", "n", "o", "u", "g", "h", "\n", "-", " ",
      "I", "n", "s", "i", "g", "h", "t", " ", "C", " ", "i", "s", " ", "l", "o", "n", "g", " ",
      "e", "n", "o", "u", "g", "h", "\n", "-", " ", "I", "n", "s", "i", "g", "h", "t", " ",
      "D", " ", "i", "s", " ", "l", "o", "n", "g", " ", "e", "n", "o", "u", "g", "h", "\n",
      "-", " ", "I", "n", "s", "i", "g", "h", "t", " ", "E", " ", "i", "s", " ", "l", "o", "n",
      "g", " ", "e", "n", "o", "u", "g", "h", "\n", "-", " ", "I", "n", "s", "i", "g", "h",
      "t", " ", "F", " ", "i", "s", " ", "l", "o", "n", "g", " ", "e", "n", "o", "u", "g", "h",
      "\n", "-", " ", "I", "n", "s", "i", "g", "h", "t", " ", "G", " ", "i", "s", " ", "l",
      "o", "n", "g", " ", "e", "n", "o", "u", "g", "h", "\n", "-", " ", "I", "n", "s", "i",
      "g", "h", "t", " ", "H", " ", "i", "s", " ", "l", "o", "n", "g", " ", "e", "n", "o", "u",
      "g", "h", "\n", "-", " ", "I", "n", "s", "i", "g", "h", "t", " ", "I", " ", "i", "s",
      " ", "l", "o", "n", "g", " ", "e", "n", "o", "u", "g", "h", "\n", "-", " ", "I", "n",
      "s", "i", "g", "h", "t", " ", "J", " ", "i", "s", " ", "l", "o", "n", "g", " ", "e", "n",
      "o", "u", "g", "h", "\n", "-", " ", "I", "n", "s", "i", "g", "h", "t", " ", "K", " ",
      "i", "s", " ", "l", "o", "n", "g", " ", "e", "n", "o", "u", "g", "h">>

\* The ways a chat-completion call fails: it raises, answers without a choice, or
\* answers with empty content.
ApiFailures == {ApiRaises(ApiErrorMsg), ApiAnswers(<<>>), ApiAnswers(<<<<>>>>)}

JudgeTexts ==
    {JudgeTrue, JudgeFalse, JudgeFencedFalse, JudgeFencedTrue, JudgeProse, JudgeUpperTrue,
     JudgeBareTrue, JudgeStringFalse, JudgeNoField, JudgeNull, JudgeZero, JudgeTrueInReason,
     JudgeBrokenTrueInReason, JudgeBrokenFalse, JudgeFenceNoBraces, JudgeList, JudgePadded,
     JudgeProseThenTrue, JudgeProseThenFalse}

SelectorTexts ==
    {SelThree, SelTwo, SelTwoFenced, SelOne, SelInvalidName, SelNotJson, SelDuplicates,
     SelString, SelNull, SelNoField, SelList, SelReasoningInt, SelReasoningStr,
     SelDictSelected, SelFenceNoBraces}

AnalyzerTexts == {AnStructured, AnShort, AnParagraphs, AnNumbered, AnEleven}

\* What the endpoint may do for a call made by the function run on its own, and for
\* a call made within a whole run of main.
JudgeResponses(e) ==
    IF e = "main"
    THEN {ApiRaises(ApiErrorMsg)} \cup {ApiAnswers(<<t>>) : t \in {JudgeTrue, JudgeFalse, JudgeProse}}
    ELSE ApiFailures \cup {ApiAnswers(<<t>>) : t \in JudgeTexts}

SelectorResponses(e) ==
    IF e = "main"
    THEN {ApiRaises(ApiErrorMsg)}
         \cup {ApiAnswers(<<t>>) : t \in {SelThree, SelTwo, SelOne, SelDuplicates, SelString}}
    ELSE ApiFailures \cup {ApiAnswers(<<t>>) : t \in SelectorTexts}

\* The header of the insights section of a reply.
KeyInsightsHeader ==
    <<"#", "#", " ", "K", "e", "y", " ", "I", "n", "s", "i", "g", "h", "t", "s">>

\* Texts of insight lines: of 27, 9 and 10 characters, and one that opens with a year.
LongInsight ==
    <<"T", "h", "i", "s", " ", "f", "i", "n", "d", "i", "n", "g", " ", "i", "s", " ", "l", "o",
      "n", "g", " ", "e", "n", "o", "u", "g", "h">>

TooShort ==
    <<"T", "o", "o", " ", "s", "h", "o", "r", "t">>

AlsoShort ==
    <<"A", "l", "s", "o", " ", "s", "h", "o", "r", "t">>

YearInsight ==
    <<"2", "0", "2", "4", " ", "w", "a", "s", " ", "a", " ", "g", "o", "o", "d", " ", "y", "e",
      "a", "r">>

\* The numbers of numbered insight lines go up to this.
MaxNumber == 15

InsightTexts == {LongInsight, TooShort, AlsoShort, YearInsight}

\* The markers that open an insight line: "<n>." and the three bullets.
Markers == {DigitsOf(n) \o <<".">> : n \in 1..MaxNumber} \cup {<<"U+2022">>, <<"-">>, <<"*">>}

\* The line "<marker> <text>".
InsightLine(marker, text) == marker \o <<" ">> \o text

\* A reply that is an insights section of one line.
InsightsReply(line) == KeyInsightsHeader \o <<"\n">> \o line

InsightReplies == {InsightsReply(InsightLine(marker, text)) : marker \in Markers, text \in InsightTexts}

\* What the endpoint may do for the call analyze_research makes, run on its own or
\* within a whole run of main.
AnalyzerResponses(e) ==
    IF e = "main"
    THEN {ApiRaises(ApiErrorMsg), ApiAnswers(<<>>)}
         \cup {ApiAnswers(<<t>>) : t \in {AnStructured, AnShort}}
    ELSE ApiFailures \cup {ApiAnswers(<<t>>) : t \in AnalyzerTexts \cup InsightReplies}

\* A ResearchResult, by the fields the pipeline reads.
Result(title, source) ==
    [title |-> title, abstract |-> <<"A", "b", "s", "t", "r", "a", "c", "t">>,
     url |-> <<"h", "t", "t", "p", "s", ":", "/", "/", "e", ".", "o", "r", "g">>,
     published_date |-> <<"2", "0", "2", "4", "-", "0", "1", "-", "1", "5">>, source |-> source,
     authors |-> <<<<"A", "n", "n">>, <<"B", "o", "b">>>>]

\* Sequences over S of length at most n.
SeqsUpTo(S, n) == UNION {[1..m -> S] : m \in 0..n}

\* The longest result list handed to the filter or the analyzer run on its own.
MaxResults == 3

\* The longest candidate list handed to select_sources run on its own.
MaxCandidates == 3

\* The longest ENABLED_SOURCES list, and active-source list, of a run.
MaxEnabled == 2

\* The most results one adapter call returns.
MaxPerSource == 1

ResultLists == SeqsUpTo({Result(PaperA, arxiv), Result(PaperB, web)}, MaxResults)

\* A result of four authors, and one with no author, no date and no url.
Coauthored ==
    [Result(PaperA, arxiv) EXCEPT !.authors = <<<<"A", "n", "n">>, <<"B", "o", "b">>, <<"C", "y">>,
                                               <<"D", "i">>>>]

Anonymous ==
    [Result(PaperB, web) EXCEPT !.authors = <<>>, !.published_date = <<>>, !.url = <<>>]

\* The values of FILTER_BATCH_SIZE: the default, and a batch of two.
BatchSizes == {1, 2}

\* The result lists handed to analyze_research run on its own.
AnalyzedLists ==
    SeqsUpTo({Result(PaperA, arxiv), Result(PaperB, web), Coauthored, Anonymous}, MaxResults)

CandidateLists == SeqsUpTo({arxiv, web, news, reddit}, MaxCandidates)

\* reddit has a source module, but main knows no adapter of that name.
SourceLists == SeqsUpTo({arxiv, web, reddit}, MaxEnabled)

\* --exclude-source: absent, one name, or a padded comma-separated list.
ExcludeArgs == {<<>>, web, ExcludeWebReddit}

\* --max-results
MaxResultsArgs == {0, 10, 101}

\* ResearchQuery.max_results: Field(10, ge=1, le=100).
MaxResultsFloor == 1

MaxResultsCeiling == 100

\* main.ALL_SOURCES
ALL_SOURCES == <<arxiv, openalex, dblp, europepmc, web, news, semantic_scholar, hackernews>>

\* The names the if/elif chain of _collect_results has an adapter for.
AdapterNames == {arxiv, openalex, dblp, europepmc, web, news, semantic_scholar, hackernews}

\* What one adapter call does: it raises, or returns a list of results of its source.
AdapterRaises == [raised |-> TRUE, results |-> <<>>]

AdapterReturns(found) == [raised |-> FALSE, results |-> found]

AdapterOutcomes(source) ==
    {AdapterRaises} \cup {AdapterReturns([m \in 1..n |-> Result(PaperA, source)]) : n \in 0..MaxPerSource}

(***************************************************************************)
(* State                                                                   *)
(***************************************************************************)

VARIABLES
    entry,              \* the function the run started in: main, or one function on its own
    pc,                 \* where the run is
    enabled_sources,    \* config.enabled_sources
    exclude_source,     \* args.exclude_source (<<>> when absent)
    max_results,        \* args.max_results
    filter_batch_size,  \* config.filter_batch_size
    active_sources,     \* main: active_sources; _collect_results: its parameter
    enable_selection,   \* main: enable_selection
    enable_filter,      \* main: enable_filter
    available_sources,  \* select_sources: its parameter
    verbose,            \* select_sources: its parameter
    selection,          \* what select_sources returned (main: selected_sources, reasoning)
    query,              \* the ResearchQuery
    rewritten,          \* what rewrite_query returned
    src_idx,            \* _collect_results: idx
    all_results,        \* _collect_results: all_results
    attempts,           \* _collect_results: what each adapter call of this collection did
    results,            \* main: results; the filter's and the analyzer's parameter
    res_idx,            \* filter_relevant_results: idx
    relevant_results,   \* filter_relevant_results: relevant_results
    filtered_out,       \* filter_relevant_results: filtered_out
    verdict,            \* filter_relevant_results: is_relevant, reason of the last result
    stats,              \* filter_relevant_results: stats (main: filter_stats)
    response,           \* what the endpoint did for the latest model call of the function running
    analysis,           \* what analyze_research did
    saved,              \* the reports written to the output directory
    error,              \* the exception that ended the run, if one did
    exit_code,          \* the exit status of main (-1 while it runs)
    calls,              \* every external call made so far, in order
    adapter,            \* an adapter run on its own: the source tag of the adapter
    provider,           \* an adapter run on its own: the records the provider answered with
    date_from,          \* an adapter run on its own: its parameter (None when not given)
    date_to,            \* an adapter run on its own: its parameter (None when not given)
    request,            \* an adapter run on its own: the params of the request it sent
    abstract_inverted_index, \* _extract_abstract run on its own: its parameter
    abstract_text       \* _extract_abstract run on its own: what it returned

vars ==
    <<entry, pc, enabled_sources, exclude_source, max_results, filter_batch_size, active_sources,
      enable_selection, enable_filter, available_sources, verbose, selection, query, rewritten,
      src_idx, all_results,
      attempts, results, res_idx, relevant_results, filtered_out, verdict, stats, response,
      analysis, saved, error, exit_code, calls, adapter, provider,
      date_from, date_to, request,
      abstract_inverted_index, abstract_text>>

adapterVars == <<adapter, provider, date_from, date_to, request,
      abstract_inverted_index, abstract_text>>

mainVars == <<enabled_sources, exclude_source, active_sources, enable_selection, enable_filter>>

selectVars == <<available_sources, verbose, selection>>

collectVars == <<src_idx, all_results, attempts>>

filterVars == <<res_idx, relevant_results, filtered_out, verdict, stats>>

NoError == [raised |-> FALSE, msg |-> <<>>]

Error(msg) == [raised |-> TRUE, msg |-> msg]

NoSelection == Selection(<<>>, JDict(<<>>, <<>>), FALSE)

NoVerdict == Verdict(JNone, JNone, FALSE)

NoAnalysis == [raised |-> FALSE, msg |-> <<>>, value |-> Analysis(<<>>, <<>>), called |-> FALSE]

\* What rewrite_query returned: a value, whatever its type.
Rewritten(value) == [raised |-> FALSE, returned |-> TRUE, value |-> value]

NotRewritten == [raised |-> FALSE, returned |-> FALSE, value |-> JNone]

DefaultQuery == [topic |-> Topic, max_results |-> 10]

\* An external call: a chat completion requested by fn (select_sources,
\* _judge_relevance, analyze_research), the search of an adapter, or save_report.
Call(fn, arg) == [fn |-> fn, arg |-> arg]

\* The state at the start of a run of function e with the given inputs, the
\* parameters of an adapter aside.
Entered(e, enabled, exclude, candidates, talk, sources, found) ==
    /\ entry = e
    /\ pc = e
    /\ enabled_sources = enabled
    /\ exclude_source = exclude
    /\ active_sources = sources
    /\ enable_selection = FALSE
    /\ enable_filter = FALSE
    /\ available_sources = candidates
    /\ verbose = talk
    /\ selection = NoSelection
    /\ query = DefaultQuery
    /\ rewritten = NotRewritten
    /\ src_idx = 1
    /\ all_results = <<>>
    /\ attempts = <<>>
    /\ results = found
    /\ res_idx = 1
    /\ relevant_results = <<>>
    /\ filtered_out = 0
    /\ verdict = NoVerdict
    /\ stats = Stats(0, 0, 0)
    /\ response = NoResponse
    /\ analysis = NoAnalysis
    /\ saved = <<>>
    /\ error = NoError
    /\ exit_code = -1
    /\ calls = <<>>

\* No adapter runs on its own.
NoAdapter ==
    /\ adapter = <<>>
    /\ provider = <<>>
    /\ date_from = JNone
    /\ date_to = JNone
    /\ request = JNone
    /\ abstract_inverted_index = JNone
    /\ abstract_text = <<>>

\* The state at the start of a run of one step of main on its own.
Start(e, enabled, exclude, candidates, talk, sources, found) ==
    /\ Entered(e, enabled, exclude, candidates, talk, sources, found)
    /\ max_results = DefaultQuery.max_results
    /\ filter_batch_size = 1
    /\ NoAdapter

\* Where a function returns to: the next step of main, or the end of a run of its own.
ReturnTo(next) == IF entry = "main" THEN next ELSE "done"

(***************************************************************************)
(* main (main.py)                                                          *)
(***************************************************************************)

\* [s for s in sources if s in allowed]
Only(sources, allowed) ==
    LET Test(s) == s \in allowed
    IN  SelectSeq(sources, Test)

Elements(s) == {s[m] : m \in 1..Len(s)}

\* An exclusion that compares the names as typed, blanks included.
ExcludedAsTyped(arg) ==
    IF arg = <<>> THEN {}
    ELSE Elements(Split(arg, ","))

\* {s.strip() for s in exclude_source.split(",")}; nothing when the option is absent or empty.
Excluded(arg) ==
    IF arg = <<>> THEN {}
    ELSE {Strip(part) : part \in Elements(Split(arg, ","))}

\* The active sources main starts from: the enabled ones it knows, minus the excluded ones.
ActiveSources(enabled, exclude) ==
    LET known == Only(enabled, Elements(ALL_SOURCES))
    IN  Only(known, Elements(known) \ Excluded(exclude))

\* A run that never tests for an empty list.
ResultsAssumed(found) == FALSE

\* not results
NoResults(found) == found = <<>>

\* sys.exit(code)
Exit(code) ==
    /\ exit_code' = code
    /\ pc' = "exited"

\* An exception that does not leave the try block: main goes on to the report.
RaiseIgnored == IF entry = "main" THEN "report" ELSE "done"

\* An exception leaves the function running: main catches it, a function run on its
\* own ends with it.
RaiseTo == IF entry = "main" THEN "except" ELSE "done"

\* main: the active sources; exit 1 when none is left.
DetermineSources ==
    /\ pc = "main"
    /\ active_sources' = ActiveSources(enabled_sources, exclude_source)
    /\ IF active_sources' = <<>>
       THEN Exit(1)
       ELSE /\ pc' = "selection"
            /\ UNCHANGED exit_code
    /\ UNCHANGED <<entry, max_results, filter_batch_size, rewritten, adapterVars,
                   enabled_sources, exclude_source, enable_selection, enable_filter, selectVars,
                   query, collectVars, results, filterVars, response, analysis, saved, error,
                   calls>>

\* main: whether to select sources, from the configuration and --no-source-selection.
DecideSelection ==
    /\ pc = "selection"
    /\ \E enable_source_selection \in BOOLEAN, no_source_selection \in BOOLEAN :
          /\ enable_selection' = (enable_source_selection /\ ~no_source_selection)
          /\ IF enable_selection'
             THEN /\ pc' = "select_sources"
                  /\ available_sources' = active_sources
                  /\ verbose' = TRUE
             ELSE /\ pc' = "query"
                  /\ UNCHANGED <<available_sources, verbose>>
    /\ UNCHANGED <<entry, max_results, filter_batch_size, rewritten, adapterVars,
                   enabled_sources, exclude_source, active_sources, enable_filter, selection,
                   query, collectVars, results, filterVars, response, analysis, saved, error,
                   exit_code, calls>>

\* select_sources, from its entry to its return.
SelectSources ==
    /\ pc = "select_sources"
    /\ \E r \in IF available_sources = <<>> THEN {NoResponse} ELSE SelectorResponses(entry) :
          /\ response' = r
          /\ selection' = select_sources(available_sources, verbose, r)
    /\ calls' = IF available_sources = <<>> THEN calls
                ELSE Append(calls, Call("select_sources", Topic))
    /\ pc' = ReturnTo("selected")
    /\ UNCHANGED <<entry, max_results, filter_batch_size, rewritten, adapterVars, mainVars,
                   available_sources, verbose, query, collectVars, results, filterVars,
                   analysis, saved, error, exit_code>>

\* main: the selection replaces the active sources.  The call stands outside the try
\* block, so an exception of select_sources would end the run uncaught.
AdoptSelection ==
    /\ pc = "selected"
    /\ IF selection.raised
       THEN /\ error' = Error(<<>>)
            /\ Exit(1)
            /\ UNCHANGED active_sources
       ELSE /\ active_sources' = selection.selected
            /\ pc' = "query"
            /\ UNCHANGED <<error, exit_code>>
    /\ available_sources' = <<>>
    /\ response' = NoResponse
    /\ UNCHANGED <<entry, max_results, filter_batch_size, rewritten, adapterVars,
                   enabled_sources, exclude_source, enable_selection, enable_filter, verbose,
                   selection, query, collectVars, results, filterVars, analysis, saved, calls>>

\* A ResearchQuery that brings max_results into its bounds instead of rejecting it.
BuildQueryClamped ==
    /\ pc = "query"
    /\ query' = [topic |-> Topic,
                 max_results |-> IF max_results < MaxResultsFloor THEN MaxResultsFloor
                                 ELSE IF max_results > MaxResultsCeiling THEN MaxResultsCeiling
                                 ELSE max_results]
    /\ pc' = "_collect_results"
    /\ UNCHANGED <<entry, max_results, filter_batch_size, rewritten, adapterVars, mainVars,
                   selectVars, collectVars, results, filterVars, response, analysis, saved,
                   error, exit_code, calls>>

\* main: the ResearchQuery, whose max_results pydantic checks against its bounds.
BuildQuery ==
    /\ pc = "query"
    /\ IF max_results < MaxResultsFloor \/ max_results > MaxResultsCeiling
       THEN /\ error' = Error(ValidationErrorMsg)
            /\ pc' = "except"
            /\ UNCHANGED query
       ELSE /\ query' = [topic |-> Topic, max_results |-> max_results]
            /\ pc' = "_collect_results"
            /\ UNCHANGED error
    /\ UNCHANGED <<entry, max_results, filter_batch_size, rewritten, adapterVars, mainVars,
                   selectVars, collectVars, results, filterVars, response, analysis, saved,
                   exit_code, calls>>

\* A collection that loses what it has gathered when an adapter raises.
ExtendOrReset(collected, outcome) ==
    IF outcome.raised THEN <<>> ELSE collected \o outcome.results

\* _collect_results: all_results after one adapter call.
Extend(collected, outcome) ==
    IF outcome.raised THEN collected ELSE collected \o outcome.results

\* _collect_results: one turn of the loop.
CollectStep ==
    /\ pc = "_collect_results"
    /\ src_idx <= Len(active_sources)
    /\ LET source == active_sources[src_idx]
       IN  IF source \in AdapterNames
           THEN \E outcome \in AdapterOutcomes(source) :
                   /\ calls' = Append(calls, Call("search", source))
                   /\ attempts' = Append(attempts, outcome)
                   /\ all_results' = Extend(all_results, outcome)
           ELSE UNCHANGED <<calls, attempts, all_results>>
    /\ src_idx' = src_idx + 1
    /\ UNCHANGED <<entry, max_results, filter_batch_size, rewritten, adapterVars, pc, mainVars,
                   selectVars, query, results, filterVars, response, analysis, saved, error,
                   exit_code>>

\* _collect_results: return all_results.
CollectReturn ==
    /\ pc = "_collect_results"
    /\ src_idx > Len(active_sources)
    /\ results' = all_results
    /\ pc' = ReturnTo("collected")
    /\ UNCHANGED <<entry, max_results, filter_batch_size, rewritten, adapterVars, mainVars,
                   selectVars, query, collectVars, filterVars, response, analysis, saved, error,
                   exit_code, calls>>

\* main: exit 1 without results; otherwise whether to filter, from the configuration
\* and --no-filter.
AfterCollect ==
    /\ pc = "collected"
    /\ IF NoResults(results)
       THEN /\ Exit(1)
            /\ UNCHANGED enable_filter
       ELSE /\ \E enable_relevance_filter \in BOOLEAN, no_filter \in BOOLEAN :
                  enable_filter' = (enable_relevance_filter /\ ~no_filter)
            /\ pc' = IF enable_filter' THEN "filter_relevant_results" ELSE "analyze_research"
            /\ UNCHANGED exit_code
    /\ src_idx' = 1
    /\ all_results' = <<>>
    /\ attempts' = <<>>
    /\ UNCHANGED <<entry, max_results, filter_batch_size, rewritten, adapterVars,
                   enabled_sources, exclude_source, active_sources, enable_selection,
                   selectVars, query, results, filterVars, response, analysis, saved, error,
                   calls>>

\* filter_relevant_results: an empty input returns at once; otherwise the loop starts.
FilterEnter ==
    /\ pc = "filter_relevant_results"
    /\ relevant_results' = <<>>
    /\ filtered_out' = 0
    /\ res_idx' = 1
    /\ IF results = <<>>
       THEN /\ stats' = Stats(0, 0, 0)
            /\ pc' = ReturnTo("filtered")
       ELSE /\ pc' = "judging"
            /\ UNCHANGED stats
    /\ UNCHANGED <<entry, max_results, filter_batch_size, rewritten, adapterVars, mainVars,
                   selectVars, query, collectVars, results, verdict, response, analysis, saved,
                   error, exit_code, calls>>

\* A tally that forgets to count the result it drops.
TallyUncounted(kept, dropped, result, is_relevant) ==
    IF Truthy(is_relevant)
    THEN [relevant_results |-> Append(kept, result), filtered_out |-> dropped]
    ELSE [relevant_results |-> kept, filtered_out |-> dropped]

\* A loop that puts a kept result in front of the ones kept before it.
TallyReordered(kept, dropped, result, is_relevant) ==
    IF Truthy(is_relevant)
    THEN [relevant_results |-> <<result>> \o kept, filtered_out |-> dropped]
    ELSE [relevant_results |-> kept, filtered_out |-> dropped + 1]

\* filter_relevant_results: the result is appended when is_relevant is true, counted
\* as filtered out otherwise.
Tally(kept, dropped, result, is_relevant) ==
    IF Truthy(is_relevant)
    THEN [relevant_results |-> Append(kept, result), filtered_out |-> dropped]
    ELSE [relevant_results |-> kept, filtered_out |-> dropped + 1]

\* filter_relevant_results: one turn of the loop, the call of _judge_relevance included.
JudgeStep ==
    /\ pc = "judging"
    /\ res_idx <= Len(results)
    /\ \E r \in JudgeResponses(entry) :
          /\ response' = r
          /\ verdict' = _judge_relevance(r)
    /\ calls' = Append(calls, Call("_judge_relevance", results[res_idx].title))
    /\ IF verdict'.raised
       THEN /\ error' = Error(verdict'.reason.s)
            /\ pc' = RaiseTo
            /\ UNCHANGED <<relevant_results, filtered_out, res_idx>>
       ELSE /\ LET tally == Tally(relevant_results, filtered_out, results[res_idx],
                                       verdict'.is_relevant)
               IN  /\ relevant_results' = tally.relevant_results
                   /\ filtered_out' = tally.filtered_out
            /\ res_idx' = res_idx + 1
            /\ UNCHANGED <<pc, error>>
    /\ UNCHANGED <<entry, max_results, filter_batch_size, rewritten, adapterVars, mainVars,
                   selectVars, query, collectVars, results, stats, analysis, saved, exit_code>>

\* filter_relevant_results: the statistics, and the return.
FilterReturn ==
    /\ pc = "judging"
    /\ res_idx > Len(results)
    /\ stats' = Stats(Len(results), Len(relevant_results), filtered_out)
    /\ pc' = ReturnTo("filtered")
    /\ UNCHANGED <<entry, max_results, filter_batch_size, rewritten, adapterVars, mainVars,
                   selectVars, query, collectVars, results, res_idx, relevant_results,
                   filtered_out, verdict, response, analysis, saved, error, exit_code, calls>>

\* main: the filtered list replaces the results; exit 1 when it is empty.
AfterFilter ==
    /\ pc = "filtered"
    /\ results' = relevant_results
    /\ IF NoResults(relevant_results)
       THEN Exit(1)
       ELSE /\ pc' = "analyze_research"
            /\ UNCHANGED exit_code
    /\ res_idx' = 1
    /\ relevant_results' = <<>>
    /\ filtered_out' = 0
    /\ verdict' = NoVerdict
    /\ response' = NoResponse
    /\ UNCHANGED <<entry, max_results, filter_batch_size, rewritten, adapterVars, mainVars,
                   selectVars, query, collectVars, stats, analysis, saved, error, calls>>

\* analyze_research, from its entry to its return or its exception.
AnalyzeResearch ==
    /\ pc = "analyze_research"
    /\ \E r \in IF results = <<>> THEN {NoResponse} ELSE AnalyzerResponses(entry) :
          /\ response' = r
          /\ analysis' = analyze_research(query, results, r)
    /\ calls' = IF analysis'.called
                THEN Append(calls, Call("analyze_research", AnalyzerPrompt(query, results)))
                ELSE calls
    /\ IF analysis'.raised
       THEN /\ error' = Error(analysis'.msg)
            /\ pc' = RaiseTo
       ELSE /\ pc' = ReturnTo("report")
            /\ UNCHANGED error
    /\ UNCHANGED <<entry, max_results, filter_batch_size, rewritten, adapterVars, mainVars,
                   selectVars, query, collectVars, results, filterVars, saved, exit_code>>

\* A list without the elements that repeat an earlier one.
RECURSIVE WithoutDuplicates(_)
WithoutDuplicates(found) ==
    IF found = <<>> THEN <<>>
    ELSE LET n     == Len(found)
             front == WithoutDuplicates(SubSeq(found, 1, n - 1))
         IN  IF \E m \in 1..(n - 1) : found[m] = found[n] THEN front ELSE Append(front, found[n])

\* A report that lists each result once.
ReportWithoutDuplicates(q, found, value) ==
    [query |-> q, summary |-> value.summary, insights |-> value.insights,
     results |-> WithoutDuplicates(found)]

\* ResearchReport(query, summary, insights, results)
ResearchReport(q, found, value) ==
    [query |-> q, summary |-> value.summary, insights |-> value.insights, results |-> found]

\* report_generator.generate_markdown renders the report; the rendering is kept as the
\* report it renders.
generate_markdown(report) == report

\* report_generator.save_report writes the rendering to a file, or fails to.
save_report(files, markdown, written) ==
    IF written THEN Append(files, markdown) ELSE files

\* main: build the report, render it and save it.
SaveReport ==
    /\ pc = "report"
    /\ \E written \in BOOLEAN :
          /\ saved' = save_report(saved, generate_markdown(ResearchReport(query, results, analysis.value)), written)
          /\ IF written
             THEN /\ pc' = "summary"
                  /\ UNCHANGED error
             ELSE /\ error' = Error(SaveFailedMsg)
                  /\ pc' = "except"
    /\ calls' = Append(calls, Call("save_report", query.topic))
    /\ response' = NoResponse
    /\ UNCHANGED <<entry, max_results, filter_batch_size, rewritten, adapterVars, mainVars,
                   selectVars, query, collectVars, results, filterVars, analysis, exit_code>>

\* main: the closing summary; main returns and the process exits 0.
Finish ==
    /\ pc = "summary"
    /\ Exit(0)
    /\ UNCHANGED <<entry, max_results, filter_batch_size, rewritten, adapterVars, mainVars,
                   selectVars, query, collectVars, results, filterVars, response, analysis,
                   saved, error, calls>>

\* main: except Exception: print the error and exit 1.
HandleError ==
    /\ pc = "except"
    /\ Exit(1)
    /\ UNCHANGED <<entry, max_results, filter_batch_size, rewritten, adapterVars, mainVars,
                   selectVars, query, collectVars, results, filterVars, response, analysis,
                   saved, error, calls>>

(***************************************************************************)
(* Query rewriter (synthesis/query_rewriter.py)                            *)
(***************************************************************************)

KeyQuery ==
    <<"q", "u", "e", "r", "y">>

RwPlain ==
    <<"{", "\"", "q", "u", "e", "r", "y", "\"", ":", " ", "\"", "l", "l", "m", " ", "a", "g",
      "e", "n", "t", "s", " ", "s", "u", "r", "v", "e", "y", " ", "-", "j", "o", "b", "s",
      "\"", ",", " ", "\"", "r", "e", "a", "s", "o", "n", "i", "n", "g", "\"", ":", " ", "\"",
      "a", "d", "d", "e", "d", " ", "t", "e", "r", "m", "s", "\"", "}">>

RwFenced ==
    <<"H", "e", "r", "e", " ", "y", "o", "u", " ", "g", "o", ":", "\n", "U+0060", "U+0060",
      "U+0060", "j", "s", "o", "n", "\n", "{", "\"", "q", "u", "e", "r", "y", "\"", ":", " ",
      "\"", "l", "l", "m", " ", "a", "g", "e", "n", "t", "s", " ", "s", "u", "r", "v", "e",
      "y", "\"", "}", "\n", "U+0060", "U+0060", "U+0060">>

RwNoQuery ==
    <<"{", "\"", "r", "e", "a", "s", "o", "n", "i", "n", "g", "\"", ":", " ", "\"", "n", "o",
      "t", "h", "i", "n", "g", " ", "t", "o", " ", "c", "h", "a", "n", "g", "e", "\"", "}">>

RwNullQuery ==
    <<"{", "\"", "q", "u", "e", "r", "y", "\"", ":", " ", "n", "u", "l", "l", ",", " ", "\"",
      "r", "e", "a", "s", "o", "n", "i", "n", "g", "\"", ":", " ", "\"", "u", "n", "s", "u",
      "r", "e", "\"", "}">>

RwNumberQuery ==
    <<"{", "\"", "q", "u", "e", "r", "y", "\"", ":", " ", "4", "2", "}">>

RwListQuery ==
    <<"{", "\"", "q", "u", "e", "r", "y", "\"", ":", " ", "[", "\"", "l", "l", "m", "\"", ",",
      " ", "\"", "a", "g", "e", "n", "t", "s", "\"", "]", "}">>

RwEmptyQuery ==
    <<"{", "\"", "q", "u", "e", "r", "y", "\"", ":", " ", "\"", "\"", "}">>

RwProse ==
    <<"T", "r", "y", " ", "s", "e", "a", "r", "c", "h", "i", "n", "g", " ", "f", "o", "r", " ",
      "l", "l", "m", " ", "a", "g", "e", "n", "t", "s">>

RwList ==
    <<"[", "\"", "l", "l", "m", " ", "a", "g", "e", "n", "t", "s", "\"", "]">>

RwBroken ==
    <<"{", "\"", "q", "u", "e", "r", "y", "\"", ":", " ", "\"", "l", "l", "m", " ", "a", "g",
      "e", "n", "t", "s">>

RwBareString ==
    <<"\"", "l", "l", "m", " ", "a", "g", "e", "n", "t", "s", "\"">>

RwPadded ==
    <<" ", " ", "{", "\"", "q", "u", "e", "r", "y", "\"", ":", " ", "\"", "l", "l", "m", " ",
      "a", "g", "e", "n", "t", "s", "\"", "}", "\n">>

OtherTopic ==
    <<"l", "l", "m", " ", "a", "g", "e", "n", "t", "s">>

\* rewrite_query(topic, verbose), given what the endpoint does: every exception
\* of the try block, the ValueError of a reply without content and the
\* AttributeError of a decoded value without get included, ends in return topic.
rewrite_query(topic, talk, reply) ==
    IF reply.raises THEN Rewritten(JStr(topic))
    ELSE IF reply.choices = <<>> THEN Rewritten(JStr(topic))
    ELSE IF reply.choices[1] = <<>> THEN Rewritten(JStr(topic))
    ELSE LET result == JsonLoads(ExtractJson(reply.choices[1]))
         IN  IF ~result.ok THEN Rewritten(JStr(topic))
             ELSE IF result.v.k # "dict" THEN Rewritten(JStr(topic))
             ELSE Rewritten(DictGet(result.v, KeyQuery, JStr(topic)))

\* The replies the rewriter is tried on: its own, and the replies written for the
\* other model calls, none of which holds a query.
RewriterTexts ==
    {RwPlain, RwFenced, RwNoQuery, RwNullQuery, RwNumberQuery, RwListQuery, RwEmptyQuery,
     RwProse, RwList, RwBroken, RwBareString, RwPadded}
    \cup JudgeTexts \cup SelectorTexts \cup AnalyzerTexts

RewriterResponses == ApiFailures \cup {ApiAnswers(<<t>>) : t \in RewriterTexts}

\* rewrite_query, called on its own.
RewriteQuery ==
    /\ pc = "rewrite_query"
    /\ \E r \in RewriterResponses :
          /\ response' = r
          /\ rewritten' = rewrite_query(query.topic, verbose, r)
    /\ calls' = Append(calls, Call("rewrite_query", query.topic))
    /\ pc' = "done"
    /\ UNCHANGED <<entry, max_results, filter_batch_size, adapterVars, mainVars, selectVars,
                   query, collectVars, results, filterVars, analysis, saved, error, exit_code>>

(***************************************************************************)
(* Source adapters (sources/*.py)                                          *)
(***************************************************************************)

\* A provider record is the dict the adapter reads with .get: its keys are
\* written as plain strings, its values are JSON values.

Untitled ==
    <<"U", "n", "t", "i", "t", "l", "e", "d">>

NoneWord ==
    <<"N", "o", "n", "e">>

NoAbstractAvailable ==
    <<"N", "o", " ", "a", "b", "s", "t", "r", "a", "c", "t", " ", "a", "v", "a", "i", "l", "a",
      "b", "l", "e">>

JanuaryFirst ==
    <<"-", "0", "1", "-", "0", "1">>

DoiPrefix ==
    <<"h", "t", "t", "p", "s", ":", "/", "/", "d", "o", "i", ".", "o", "r", "g", "/">>

ArxivAbsPrefix ==
    <<"h", "t", "t", "p", "s", ":", "/", "/", "a", "r", "x", "i", "v", ".", "o", "r", "g", "/",
      "a", "b", "s", "/">>

HnItemPrefix ==
    <<"h", "t", "t", "p", "s", ":", "/", "/", "n", "e", "w", "s", ".", "y", "c", "o", "m", "b",
      "i", "n", "a", "t", "o", "r", ".", "c", "o", "m", "/", "i", "t", "e", "m", "?", "i", "d",
      "=">>

HnPoints ==
    <<" ", "p", "o", "i", "n", "t", "s", ",", " ">>

HnComments ==
    <<" ", "c", "o", "m", "m", "e", "n", "t", "s", " ", "o", "n", " ", "H", "N">>

RedditPrefix ==
    <<"h", "t", "t", "p", "s", ":", "/", "/", "w", "w", "w", ".", "r", "e", "d", "d", "i", "t",
      ".", "c", "o", "m">>

RedditScore ==
    <<"S", "c", "o", "r", "e", ":", " ">>

RedditComments ==
    <<" ", "|", " ", "C", "o", "m", "m", "e", "n", "t", "s", ":", " ">>

Deleted ==
    <<"[", "d", "e", "l", "e", "t", "e", "d", "]">>

crossref ==
    <<"c", "r", "o", "s", "s", "r", "e", "f">>

core ==
    <<"c", "o", "r", "e">>

github ==
    <<"g", "i", "t", "h", "u", "b">>

Bar ==
    <<" ", "|", " ">>

SubredditPrefix ==
    <<"r", "/">>

UserPrefix ==
    <<"u", "/">>

HttpWord ==
    <<"h", "t", "t", "p">>

SearchFailedPrefix ==
    <<"F", "a", "i", "l", "e", "d", " ", "t", "o", " ", "s", "e", "a", "r", "c", "h", " ">>

DayA ==
    <<"2", "0", "2", "4", "-", "0", "1", "-", "1", "5">>

DayB ==
    <<"2", "0", "2", "1", "-", "0", "1", "-", "0", "1">>

IsoStamp ==
    <<"2", "0", "2", "4", "-", "0", "1", "-", "1", "5", "T", "1", "0", ":", "3", "0", ":", "0",
      "0", "Z">>

IsoOldStamp ==
    <<"0", "9", "9", "9", "-", "0", "1", "-", "1", "5", "T", "1", "0", ":", "3", "0", ":", "0",
      "0", "Z">>

ProviderDate ==
    <<"2", "0", "2", "4", "-", "0", "1", "-", "1", "5", "T", "1", "0", ":", "3", "0", ":", "0",
      "0", "+", "0", "0", ":", "0", "0">>

NotADate ==
    <<"y", "e", "s", "t", "e", "r", "d", "a", "y">>

SomeDoi ==
    <<"1", "0", ".", "1", "/", "x">>

SomeUrl ==
    <<"h", "t", "t", "p", "s", ":", "/", "/", "e", ".", "o", "r", "g", "/", "p">>

SomeTitle ==
    <<"T">>

SomeName ==
    <<"A", "n", "n">>

\* str(v), for the values an adapter formats
PyStr(v) ==
    CASE v.k = "None" -> NoneWord
      [] v.k = "str"  -> v.s
      [] v.k = "int"  -> v.s

\* s.replace(old, new), for a one-character old
RECURSIVE Replace(_, _, _)
Replace(s, old, new) ==
    IF s = <<>> THEN <<>>
    ELSE (IF s[1] = old THEN new ELSE <<s[1]>>) \o Replace(Tail(s), old, new)

\* a < b, for two str: the comparison of their code points, left to right
RECURSIVE StrLess(_, _)
StrLess(a, b) ==
    IF b = <<>> THEN FALSE
    ELSE IF a = <<>> THEN TRUE
    ELSE IF a[1] = b[1] THEN StrLess(Tail(a), Tail(b))
    ELSE CodePoint(a[1]) < CodePoint(b[1])

\* int(s), for a text of decimal digits
RECURSIVE IntOf(_)
IntOf(s) ==
    IF s = <<>> THEN 0
    ELSE 10 * IntOf(SubSeq(s, 1, Len(s) - 1)) + (CodePoint(s[Len(s)]) - 48)

\* f"{n:0{width}d}"
RECURSIVE Pad(_, _)
Pad(digits, width) == IF Len(digits) >= width THEN digits ELSE Pad(<<"0">> \o digits, width)

\* A datetime, by its date.
Date(year, month, day) == [year |-> year, month |-> month, day |-> day]

\* dt.strftime("%Y-%m-%d"): the C library pads the month and the day, and leaves
\* a year below 1000 as short as it is.
Strftime(dt) ==
    DigitsOf(dt.year) \o <<"-">> \o Pad(DigitsOf(dt.month), 2) \o <<"-">> \o Pad(DigitsOf(dt.day), 2)

DaysInMonth(year, month) ==
    IF month = 2
    THEN IF year % 4 = 0 /\ (year % 100 # 0 \/ year % 400 = 0) THEN 29 ELSE 28
    ELSE IF month \in {4, 6, 9, 11} THEN 30 ELSE 31

\* datetime.fromisoformat(s), for a text that opens with YYYY-MM-DD and ends
\* there or goes on with a separator and a time; ok is FALSE where the code
\* gets ValueError.
FromIsoFormat(s) ==
    LET shaped == /\ Len(s) >= 10
                  /\ \A m \in {1, 2, 3, 4, 6, 7, 9, 10} : s[m] \in Digits
                  /\ s[5] = "-" /\ s[8] = "-"
                  /\ Len(s) = 10 \/ (Len(s) >= 13 /\ s[12] \in Digits /\ s[13] \in Digits)
        dt     == Date(IntOf(SubSeq(s, 1, 4)), IntOf(SubSeq(s, 6, 7)), IntOf(SubSeq(s, 9, 10)))
    IN  IF shaped /\ dt.year >= 1 /\ dt.month \in 1..12 /\ dt.day \in 1..DaysInMonth(dt.year, dt.month)
        THEN [ok |-> TRUE, dt |-> dt]
        ELSE [ok |-> FALSE, dt |-> Date(1, 1, 1)]

\* datetime.utcfromtimestamp(seconds), for seconds >= 0: the civil date of the
\* day the second falls in.
UtcFromTimestamp(seconds) ==
    LET z   == seconds \div 86400 + 719468
        era == z \div 146097
        doe == z - era * 146097
        yoe == (doe - doe \div 1460 + doe \div 36524 - doe \div 146096) \div 365
        doy == doe - (365 * yoe + yoe \div 4 - yoe \div 100)
        mp  == (5 * doy + 2) \div 153
        day == doy - (153 * mp + 2) \div 5 + 1
        month == IF mp < 10 THEN mp + 3 ELSE mp - 9
        year  == yoe + era * 400 + (IF month <= 2 THEN 1 ELSE 0)
    IN  Date(year, month, day)

\* ResearchResult(...): the record, or raised where pydantic rejects a value of
\* a str field that is no str, or an author that is no str.
ResearchResult(title, abstract, url, published_date, source, authors) ==
    IF /\ \A v \in {title, abstract, url, published_date} : v.k = "str"
       /\ \A m \in 1..Len(authors) : authors[m].k = "str"
    THEN [raised |-> FALSE, skipped |-> FALSE,
          value |-> [title |-> title.s, abstract |-> abstract.s, url |-> url.s,
                     published_date |-> published_date.s, source |-> source,
                     authors |-> [m \in 1..Len(authors) |-> authors[m].s]]]
    ELSE [raised |-> TRUE, skipped |-> FALSE, value |-> <<>>]

\* One turn of an adapter's loop ends in continue, ...
Skipped == [raised |-> FALSE, skipped |-> TRUE, value |-> <<>>]

\* ... or in an exception that leaves the loop.
Raised == [raised |-> TRUE, skipped |-> FALSE, value |-> <<>>]

Empty == JStr(<<>>)

\* A date filter that knows no lower bound.
OutOfRangeAbove(pub_date, from, to) == Truthy(to) /\ StrLess(to.s, pub_date)

\* date_from and pub_date < date_from, or date_to and pub_date > date_to
OutOfRange(pub_date, from, to) ==
    \/ Truthy(from) /\ StrLess(pub_date, from.s)
    \/ Truthy(to) /\ StrLess(to.s, pub_date)

\* web_source.search_web: one hit
WebResult(hit) ==
    ResearchResult(DictGet(hit, "title", JStr(Untitled)), DictGet(hit, "body", Empty),
                   DictGet(hit, "href", Empty), Empty, web, <<>>)

\* web_source.search_news: one hit
NewsResult(hit) ==
    ResearchResult(DictGet(hit, "title", JStr(Untitled)), DictGet(hit, "body", Empty),
                   DictGet(hit, "url", Empty), DictGet(hit, "date", Empty), news,
                   <<DictGet(hit, "source", JStr(Unknown))>>)

\* arxiv_source.search_papers: one paper of the arxiv client, an object whose
\* title, summary and entry_id are str, whose published is a datetime and whose
\* authors have a name that is a str
ArxivResult(paper, from, to) ==
    LET published_date == Strftime(paper.published)
    IN  IF OutOfRange(published_date, from, to) THEN Skipped
        ELSE ResearchResult(JStr(paper.title),
                            JStr(Strip(Replace(paper.summary, "\n", <<" ">>))),
                            JStr(paper.entry_id), JStr(published_date), arxiv,
                            [m \in 1..Len(paper.authors) |-> JStr(paper.authors[m].name)])

\* scholar_source.search_papers: one paper
ScholarResult(paper) ==
    LET listed       == DictGet(paper, "authors", JList(<<>>))
        authors      == SelectSeq(listed.items, LAMBDA a : Truthy(DictGet(a, "name", JNone)))
        year         == PyStr(DictGet(paper, "year", Empty))
        given_url    == DictGet(paper, "url", Empty)
        given_ids    == DictGet(paper, "externalIds", JDict(<<>>, <<>>))
        external_ids == IF Truthy(given_ids) THEN given_ids ELSE JDict(<<>>, <<>>)
        doi          == DictGet(external_ids, "DOI", JNone)
        arxiv_id     == DictGet(external_ids, "ArXiv", JNone)
        doi_url      == IF ~Truthy(given_url) /\ Truthy(doi) THEN JStr(DoiPrefix \o PyStr(doi))
                        ELSE given_url
        paper_url    == IF ~Truthy(doi_url) /\ Truthy(arxiv_id)
                        THEN JStr(ArxivAbsPrefix \o PyStr(arxiv_id))
                        ELSE doi_url
        given_text   == DictGet(paper, "abstract", JNone)
        abstract     == IF Truthy(given_text) THEN given_text.s ELSE NoAbstractAvailable
    IN  IF ~Truthy(DictGet(paper, "title", JNone)) THEN Skipped
        ELSE IF listed.k # "list" THEN Raised
        ELSE ResearchResult(DictGet(paper, "title", JNone),
                            JStr(Strip(Replace(abstract, "\n", <<" ">>))), paper_url,
                            JStr(IF year # <<>> THEN year \o JanuaryFirst ELSE <<>>),
                            semantic_scholar,
                            [m \in 1..Len(authors) |-> DictGet(authors[m], "name", JNone)])

\* crossref_source.search_papers: one item, of a response without JATS markup,
\* container-title, type and citation count
CrossrefResult(item) ==
    LET given_title  == DictGet(item, "title", JNone)
        authors_data == DictGet(item, "author", JList(<<>>))
        named        == SelectSeq(PySlice(authors_data.items, 0, 10),
                                  LAMBDA a : Truthy(DictGet(a, "family", Empty)))
        authors      == [m \in 1..Len(named) |->
                            JStr(Strip(PyStr(DictGet(named[m], "given", Empty)) \o <<" ">>
                                       \o PyStr(DictGet(named[m], "family", Empty))))]
        published    == DictGet(item, "published", JNone)
        issued       == IF Truthy(published) THEN published
                        ELSE DictGet(item, "issued", JDict(<<>>, <<>>))
        all_parts    == DictGet(issued, "date-parts", JList(<<JList(<<>>)>>))
        date_parts   == all_parts.items[1].items
        part(m)      == IF Len(date_parts) >= m /\ date_parts[m].k # "None"
                        THEN date_parts[m].s ELSE <<"1">>
        pub_date     == IF Truthy(issued) /\ date_parts # <<>> /\ date_parts[1].k # "None"
                        THEN Pad(date_parts[1].s, 4) \o <<"-">> \o Pad(part(2), 2)
                             \o <<"-">> \o Pad(part(3), 2)
                        ELSE <<>>
        given_text   == DictGet(item, "abstract", Empty)
        abstract     == IF Truthy(given_text) THEN Strip(Replace(given_text.s, "\n", <<" ">>))
                        ELSE NoAbstractAvailable
        given_url    == DictGet(item, "URL", Empty)
        doi          == DictGet(item, "DOI", Empty)
        url          == IF ~Truthy(given_url) /\ Truthy(doi) THEN JStr(DoiPrefix \o PyStr(doi))
                        ELSE given_url
    IN  IF ~Truthy(given_title) THEN Skipped
        ELSE IF authors_data.k # "list" THEN Raised
        ELSE IF Truthy(issued) /\ (all_parts.k # "list" \/ all_parts.items = <<>>) THEN Raised
        ELSE ResearchResult(given_title.items[1], JStr(abstract), url, JStr(pub_date),
                            crossref, authors)

\* dblp_source.search_papers: one hit, of a response without venue, type, pages
\* and access
DblpResult(hit, from, to) ==
    LET info         == DictGet(hit, "info", JDict(<<>>, <<>>))
        year         == DictGet(info, "year", Empty)
        pub_date     == IF Truthy(year) THEN PyStr(year) \o JanuaryFirst ELSE <<>>
        listed       == DictGet(info, "authors", JDict(<<>>, <<>>))
        given        == DictGet(listed, "author", JList(<<>>))
        authors_data == IF given.k = "dict" THEN <<given>>
                        ELSE IF given.k = "list" THEN given.items
                        ELSE <<>>
        named        == SelectSeq(PySlice(authors_data, 0, 10),
                                  LAMBDA a : a.k = "dict" /\ Truthy(DictGet(a, "text", Empty)))
        doi          == DictGet(info, "doi", Empty)
        doi_url      == IF Truthy(doi) /\ ~IsAt(doi.s, HttpWord, 0) THEN JStr(DoiPrefix \o doi.s)
                        ELSE doi
        ee_url       == IF ~Truthy(doi_url) THEN DictGet(info, "ee", Empty) ELSE doi_url
        url          == IF ~Truthy(ee_url) THEN DictGet(info, "url", Empty) ELSE ee_url
    IN  IF ~Truthy(DictGet(info, "title", JNone)) THEN Skipped
        ELSE IF pub_date # <<>> /\ OutOfRange(pub_date, from, to) THEN Skipped
        ELSE IF listed.k # "dict" THEN Raised
        ELSE ResearchResult(DictGet(info, "title", JNone), JStr(NoAbstractAvailable), url,
                            JStr(pub_date), dblp,
                            [m \in 1..Len(named) |-> DictGet(named[m], "text", Empty)])

\* hackernews_source.search_stories: one hit
HackernewsResult(hit) ==
    LET title       == DictGet(hit, "title", Empty)
        given_url   == DictGet(hit, "url", JNone)
        url         == IF Truthy(given_url) THEN given_url
                       ELSE JStr(HnItemPrefix \o PyStr(DictGet(hit, "objectID", Empty)))
        created_at  == DictGet(hit, "created_at", Empty)
        dt          == FromIsoFormat(Replace(created_at.s, "Z", <<"+", "0", "0", ":", "0", "0">>))
        published_date == IF Truthy(created_at) /\ created_at.k = "str" /\ dt.ok
                          THEN Strftime(dt.dt) ELSE <<>>
        points      == DictGet(hit, "points", JInt(<<"0">>))
        comments    == DictGet(hit, "num_comments", JInt(<<"0">>))
        given_text  == DictGet(hit, "story_text", JNone)
        abstract    == IF Truthy(given_text) THEN PySlice(given_text.s, 0, 500)
                       ELSE PyStr(points) \o HnPoints \o PyStr(comments) \o HnComments
    IN  IF ~Truthy(title) THEN Skipped
        ELSE ResearchResult(title, JStr(abstract), url, JStr(published_date), hackernews,
                            <<DictGet(hit, "author", JStr(Unknown))>>)

\* reddit_source.search_posts: one child
RedditResult(child, from, to) ==
    LET post        == DictGet(child, "data", JDict(<<>>, <<>>))
        created_utc == DictGet(post, "created_utc", JInt(<<"0">>))
        pub_date    == IF Truthy(created_utc) THEN Strftime(UtcFromTimestamp(IntOf(created_utc.s)))
                       ELSE <<>>
        selftext    == DictGet(post, "selftext", Empty)
        subreddit   == DictGet(post, "subreddit", Empty)
        comments    == DictGet(post, "num_comments", JInt(<<"0">>))
        score       == DictGet(post, "score", JInt(<<"0">>))
        parts       == (IF Truthy(subreddit) THEN <<SubredditPrefix \o PyStr(subreddit)>> ELSE <<>>)
                       \o <<RedditScore \o PyStr(score) \o RedditComments \o PyStr(comments)>>
                       \o (IF Truthy(selftext) THEN <<PySlice(selftext.s, 0, 500)>> ELSE <<>>)
        permalink   == DictGet(post, "permalink", Empty)
        url         == IF Truthy(permalink) THEN JStr(RedditPrefix \o PyStr(permalink))
                       ELSE DictGet(post, "url", Empty)
        author      == DictGet(post, "author", Empty)
    IN  IF ~Truthy(DictGet(post, "title", JNone)) THEN Skipped
        ELSE IF Truthy(created_utc) /\ created_utc.k # "int" THEN Raised
        ELSE IF pub_date # <<>> /\ OutOfRange(pub_date, from, to) THEN Skipped
        ELSE ResearchResult(DictGet(post, "title", JNone),
                            JStr(Strip(Replace(Join(parts, Bar), "\n", <<" ">>))), url,
                            JStr(pub_date), reddit,
                            IF Truthy(author) /\ author # JStr(Deleted)
                            THEN <<JStr(UserPrefix \o PyStr(author))>> ELSE <<>>)

OpenAccess ==
    <<"A", "c", "c", "e", "s", "s", ":", " ", "O", "p", "e", "n", " ", "A", "c", "c", "e", "s",
      "s">>

ClosedAccess ==
    <<"A", "c", "c", "e", "s", "s", ":", " ", "C", "l", "o", "s", "e", "d", " ", "A", "c", "c",
      "e", "s", "s">>

EuropepmcMedPrefix ==
    <<"h", "t", "t", "p", "s", ":", "/", "/", "e", "u", "r", "o", "p", "e", "p", "m", "c", ".",
      "o", "r", "g", "/", "a", "r", "t", "i", "c", "l", "e", "/", "M", "E", "D", "/">>

EuropepmcPrefix ==
    <<"h", "t", "t", "p", "s", ":", "/", "/", "e", "u", "r", "o", "p", "e", "p", "m", "c", ".",
      "o", "r", "g", "/", "a", "r", "t", "i", "c", "l", "e", "/">>

Med ==
    <<"M", "E", "D">>

CoreWorksPrefix ==
    <<"h", "t", "t", "p", "s", ":", "/", "/", "c", "o", "r", "e", ".", "a", "c", ".", "u", "k",
      "/", "w", "o", "r", "k", "s", "/">>

NoDescriptionAvailable ==
    <<"N", "o", " ", "d", "e", "s", "c", "r", "i", "p", "t", "i", "o", "n", " ", "a", "v", "a",
      "i", "l", "a", "b", "l", "e">>

\* The pairs (position, word) left in the order of the dict.
InDictOrder(word_positions) == word_positions

\* The pairs (position, word) in the order of their positions, pairs of one
\* position in the order they were in: list.sort is stable.
RECURSIVE SortByPosition(_)
SortByPosition(word_positions) ==
    IF word_positions = <<>> THEN <<>>
    ELSE LET n      == Len(word_positions)
             sorted == SortByPosition(SubSeq(word_positions, 1, n - 1))
             last   == word_positions[n]
             before == SelectSeq(sorted, LAMBDA p : p.pos <= last.pos)
             after  == SelectSeq(sorted, LAMBDA p : p.pos > last.pos)
         IN  before \o <<last>> \o after

\* The pairs (position, word) of an inverted index, word by word in the order of
\* the dict, the positions of one word in the order of its list.
RECURSIVE WordPositions(_, _)
WordPositions(inverted_index, m) ==
    IF m > Len(inverted_index.keys) THEN <<>>
    ELSE LET positions == inverted_index.items[m].items
         IN  [n \in 1..Len(positions) |->
                 [pos |-> IntOf(positions[n].s), word |-> inverted_index.keys[m]]]
             \o WordPositions(inverted_index, m + 1)

\* openalex_source._extract_abstract, for None and for a dict that maps a word to
\* None or to a list of integers: iterating None raises, and the except clause
\* returns "".
_extract_abstract(inverted_index) ==
    IF ~Truthy(inverted_index) THEN <<>>
    ELSE IF \E m \in 1..Len(inverted_index.items) : inverted_index.items[m].k # "list" THEN <<>>
    ELSE LET word_positions == SortByPosition(WordPositions(inverted_index, 1))
         IN  Join([n \in 1..Len(word_positions) |-> word_positions[n].word], <<" ">>)

\* openalex_source.search_papers: one work
OpenalexResult(work) ==
    LET authorships == DictGet(work, "authorships", JList(<<>>))
        author_info(authorship) == DictGet(authorship, "author", JDict(<<>>, <<>>))
        named       == SelectSeq(PySlice(authorships.items, 0, 10),
                                 LAMBDA a : /\ Truthy(author_info(a))
                                            /\ Truthy(DictGet(author_info(a), "display_name", JNone)))
        given_date  == DictGet(work, "publication_date", Empty)
        pub_year    == DictGet(work, "publication_year", JNone)
        pub_date    == IF Truthy(given_date) THEN given_date
                       ELSE IF Truthy(pub_year) THEN JStr(PyStr(pub_year) \o JanuaryFirst)
                       ELSE Empty
        extracted   == _extract_abstract(DictGet(work, "abstract_inverted_index", JNone))
        abstract    == IF extracted # <<>> THEN extracted ELSE NoAbstractAvailable
        doi         == DictGet(work, "doi", Empty)
        url         == IF Truthy(doi) THEN doi ELSE DictGet(work, "id", Empty)
    IN  IF ~Truthy(DictGet(work, "title", JNone)) THEN Skipped
        ELSE IF authorships.k # "list" THEN Raised
        ELSE ResearchResult(DictGet(work, "title", JNone),
                            JStr(Strip(Replace(abstract, "\n", <<" ">>))), url, pub_date, openalex,
                            [m \in 1..Len(named) |->
                                DictGet(author_info(named[m]), "display_name", JNone)])

\* europepmc_source.search_papers: one item, of a response without journalInfo,
\* pubTypeList and fullTextUrlList
EuropepmcResult(item) ==
    LET pub_year      == DictGet(item, "pubYear", Empty)
        pub_date      == IF Truthy(pub_year) THEN PyStr(pub_year) \o JanuaryFirst ELSE <<>>
        author_string == DictGet(item, "authorString", Empty)
        pieces        == PySlice(Split(author_string.s, ","), 0, 10)
        authors       == IF Truthy(author_string)
                         THEN [m \in 1..Len(pieces) |-> JStr(Strip(pieces[m]))] ELSE <<>>
        given_text    == DictGet(item, "abstractText", Empty)
        abstract      == IF Truthy(given_text) THEN given_text.s
                         ELSE IF DictGet(item, "isOpenAccess", JStr(<<"N">>)) = JStr(<<"Y">>)
                         THEN OpenAccess ELSE ClosedAccess
        doi           == DictGet(item, "doi", Empty)
        doi_url       == IF Truthy(doi) /\ ~IsAt(doi.s, HttpWord, 0) THEN JStr(DoiPrefix \o doi.s)
                         ELSE doi
        pmid          == DictGet(item, "pmid", Empty)
        item_id       == DictGet(item, "id", Empty)
        source        == DictGet(item, "source", JStr(Med))
        url           == IF Truthy(doi_url) THEN doi_url
                         ELSE IF Truthy(pmid) THEN JStr(EuropepmcMedPrefix \o PyStr(pmid))
                         ELSE IF Truthy(item_id)
                         THEN JStr(EuropepmcPrefix \o PyStr(source) \o <<"/">> \o PyStr(item_id))
                         ELSE doi_url
    IN  IF ~Truthy(DictGet(item, "title", JNone)) THEN Skipped
        ELSE IF Truthy(author_string) /\ author_string.k # "str" THEN Raised
        ELSE IF Truthy(given_text) /\ given_text.k # "str" THEN Raised
        ELSE IF Truthy(doi) /\ doi.k # "str" THEN Raised
        ELSE ResearchResult(DictGet(item, "title", JNone),
                            JStr(Strip(Replace(abstract, "\n", <<" ">>))), url, JStr(pub_date),
                            europepmc, authors)

\* core_source.search_papers: one work, of a response without documentType,
\* dataProviders and citationCount
CoreResult(work) ==
    LET authors_data == DictGet(work, "authors", JList(<<>>))
        name(author) == IF author.k = "dict" THEN DictGet(author, "name", Empty) ELSE author
        named        == SelectSeq(PySlice(authors_data.items, 0, 10),
                                  LAMBDA a : \/ a.k = "dict" /\ Truthy(name(a))
                                             \/ a.k = "str")
        given_date   == DictGet(work, "publishedDate", Empty)
        year         == DictGet(work, "yearPublished", JNone)
        dated        == IF Truthy(given_date) THEN given_date
                        ELSE IF Truthy(year) THEN JStr(PyStr(year) \o JanuaryFirst)
                        ELSE Empty
        pub_date     == IF Truthy(dated) /\ Contains(dated.s, <<"T">>)
                        THEN JStr(Split(dated.s, "T")[1]) ELSE dated
        given_text   == DictGet(work, "abstract", Empty)
        abstract     == IF Truthy(given_text) THEN given_text.s ELSE NoAbstractAvailable
        doi          == DictGet(work, "doi", Empty)
        doi_url      == IF Truthy(doi) /\ ~IsAt(doi.s, HttpWord, 0) THEN JStr(DoiPrefix \o doi.s)
                        ELSE doi
        download_url == IF ~Truthy(doi_url) THEN DictGet(work, "downloadUrl", Empty) ELSE doi_url
        work_id      == DictGet(work, "id", Empty)
        url          == IF ~Truthy(download_url) /\ Truthy(work_id)
                        THEN JStr(CoreWorksPrefix \o PyStr(work_id))
                        ELSE download_url
    IN  IF ~Truthy(DictGet(work, "title", JNone)) THEN Skipped
        ELSE IF authors_data.k # "list" THEN Raised
        ELSE IF Truthy(dated) /\ dated.k # "str" THEN Raised
        ELSE IF Truthy(given_text) /\ given_text.k # "str" THEN Raised
        ELSE IF Truthy(doi) /\ doi.k # "str" THEN Raised
        ELSE ResearchResult(DictGet(work, "title", JNone),
                            JStr(Strip(Replace(abstract, "\n", <<" ">>))), url, pub_date, core,
                            [m \in 1..Len(named) |-> name(named[m])])

\* github_source.search_repos: one repository, of a response without
\* stargazers_count, forks_count, language and topics
GithubResult(repo) ==
    LET updated_at  == DictGet(repo, "updated_at", Empty)
        pub_date    == IF Truthy(updated_at) THEN PySlice(updated_at.s, 0, 10) ELSE <<>>
        given_text  == DictGet(repo, "description", Empty)
        description == IF Truthy(given_text) THEN given_text.s ELSE <<>>
        abstract    == IF description # <<>> THEN PySlice(description, 0, 300)
                       ELSE NoDescriptionAvailable
        owner       == DictGet(repo, "owner", JDict(<<>>, <<>>))
        owner_login == DictGet(owner, "login", Empty)
    IN  IF ~Truthy(DictGet(repo, "name", JNone)) THEN Skipped
        ELSE IF Truthy(updated_at) /\ updated_at.k # "str" THEN Raised
        ELSE IF Truthy(given_text) /\ given_text.k # "str" THEN Raised
        ELSE IF owner.k # "dict" THEN Raised
        ELSE ResearchResult(DictGet(repo, "full_name", DictGet(repo, "name", JNone)),
                            JStr(Strip(Replace(abstract, "\n", <<" ">>))),
                            DictGet(repo, "html_url", Empty), JStr(pub_date), github,
                            IF Truthy(owner_login) THEN <<owner_login>> ELSE <<>>)

\* The adapters modelled, by the source tag of their results.
Adapters ==
    {web, news, arxiv, semantic_scholar, crossref, dblp, hackernews, reddit, openalex, europepmc,
     core, github}

\* The request an adapter sends its provider: the parameters that carry the topic
\* or a date bound, as a dict.


FromPublicationDate ==
    <<"f", "r", "o", "m", "_", "p", "u", "b", "l", "i", "c", "a", "t", "i", "o", "n", "_", "d",
      "a", "t", "e", ":">>

ToPublicationDate ==
    <<"t", "o", "_", "p", "u", "b", "l", "i", "c", "a", "t", "i", "o", "n", "_", "d", "a", "t",
      "e", ":">>

FromPubDate ==
    <<"f", "r", "o", "m", "-", "p", "u", "b", "-", "d", "a", "t", "e", ":">>

UntilPubDate ==
    <<"u", "n", "t", "i", "l", "-", "p", "u", "b", "-", "d", "a", "t", "e", ":">>

HasAbstractTrue ==
    <<"h", "a", "s", "-", "a", "b", "s", "t", "r", "a", "c", "t", ":", "t", "r", "u", "e">>

FirstPdate ==
    <<" ", "F", "I", "R", "S", "T", "_", "P", "D", "A", "T", "E", ":", "[">>

ToWord ==
    <<" ", "T", "O", " ">>

Year1900 ==
    <<"1", "9", "0", "0">>

Year3000 ==
    <<"3", "0", "0", "0">>

Year2100 ==
    <<"2", "1", "0", "0">>

Year2099 ==
    <<"2", "0", "9", "9">>

YearPublishedIs ==
    <<" ", "A", "N", "D", " ", "y", "e", "a", "r", "P", "u", "b", "l", "i", "s", "h", "e", "d",
      ":">>

YearPublishedFrom ==
    <<" ", "A", "N", "D", " ", "y", "e", "a", "r", "P", "u", "b", "l", "i", "s", "h", "e", "d",
      ">", "=">>

YearPublishedTo ==
    <<" ", "A", "N", "D", " ", "y", "e", "a", "r", "P", "u", "b", "l", "i", "s", "h", "e", "d",
      "<", "=">>

PushedRange ==
    <<" ", "p", "u", "s", "h", "e", "d", ":">>

PushedFrom ==
    <<" ", "p", "u", "s", "h", "e", "d", ":", ">", "=">>

PushedTo ==
    <<" ", "p", "u", "s", "h", "e", "d", ":", "<", "=">>

DotDot ==
    <<".", ".">>

TimeDay ==
    <<"d", "a", "y">>

TimeWeek ==
    <<"w", "e", "e", "k">>

TimeMonth ==
    <<"m", "o", "n", "t", "h">>

TimeYear ==
    <<"y", "e", "a", "r">>

TimeAll ==
    <<"a", "l", "l">>

\* date[:4]
YearOf(date) == PySlice(date.s, 0, 4)

\* openalex_source: params["filter"] is set when a bound is given
OpenalexParams(topic, from, to) ==
    LET filter_parts == (IF Truthy(from) THEN <<FromPublicationDate \o from.s>> ELSE <<>>)
                        \o (IF Truthy(to) THEN <<ToPublicationDate \o to.s>> ELSE <<>>)
    IN  IF filter_parts # <<>>
        THEN JDict(<<"search", "filter">>, <<JStr(topic), JStr(Join(filter_parts, <<",">>))>>)
        ELSE JDict(<<"search">>, <<JStr(topic)>>)

\* crossref_source: the filter always asks for records with an abstract
CrossrefParams(topic, from, to) ==
    LET filters == (IF Truthy(from) THEN <<FromPubDate \o from.s>> ELSE <<>>)
                   \o (IF Truthy(to) THEN <<UntilPubDate \o to.s>> ELSE <<>>)
                   \o <<HasAbstractTrue>>
    IN  JDict(<<"query.bibliographic", "filter">>, <<JStr(topic), JStr(Join(filters, <<",">>))>>)

\* europepmc_source: the years go into the query
EuropepmcParams(topic, from, to) ==
    LET from_year == IF Truthy(from) THEN YearOf(from) ELSE Year1900
        to_year   == IF Truthy(to) THEN YearOf(to) ELSE Year3000
    IN  JDict(<<"query">>,
              <<JStr(IF Truthy(from) \/ Truthy(to)
                     THEN topic \o FirstPdate \o from_year \o ToWord \o to_year \o <<"]">>
                     ELSE topic)>>)

\* core_source: the years go into the query
CoreParams(topic, from, to) ==
    LET from_year == IF Truthy(from) THEN YearOf(from) ELSE Year1900
        to_year   == IF Truthy(to) THEN YearOf(to) ELSE Year2100
    IN  JDict(<<"q">>,
              <<JStr(IF ~(Truthy(from) \/ Truthy(to)) THEN topic
                     ELSE IF from_year = to_year THEN topic \o YearPublishedIs \o from_year
                     ELSE topic \o YearPublishedFrom \o from_year
                          \o YearPublishedTo \o to_year)>>)

\* scholar_source: params["year"] is set under "if date_from:"
ScholarParams(topic, from, to) ==
    LET year_to == IF Truthy(to) THEN YearOf(to) ELSE Year2099
    IN  IF Truthy(from)
        THEN JDict(<<"query", "year">>, <<JStr(topic), JStr(YearOf(from) \o <<"-">> \o year_to)>>)
        ELSE JDict(<<"query">>, <<JStr(topic)>>)

\* github_source: the days go into the query
GithubParams(topic, from, to) ==
    JDict(<<"q">>,
          <<JStr(IF Truthy(from) /\ Truthy(to)
                 THEN topic \o PushedRange \o from.s \o DotDot \o to.s
                 ELSE IF Truthy(from) THEN topic \o PushedFrom \o from.s
                 ELSE IF Truthy(to) THEN topic \o PushedTo \o to.s
                 ELSE topic)>>)

\* reddit_source._date_to_time_filter, for a date_from of the form YYYY-MM-DD:
\* the window depends on the day the search runs.
TimeFilters == {TimeDay, TimeWeek, TimeMonth, TimeYear, TimeAll}

\* reddit_source: params["t"] is a window counted back from today
RedditParams(topic, from) ==
    {JDict(<<"q", "t">>, <<JStr(topic), JStr(t)>>) :
        t \in IF Truthy(from) THEN TimeFilters ELSE {TimeYear}}

\* The requests the adapter of a source may send for a topic and two bounds.
Requests(source, topic, from, to) ==
    CASE source = openalex         -> {OpenalexParams(topic, from, to)}
      [] source = crossref         -> {CrossrefParams(topic, from, to)}
      [] source = europepmc        -> {EuropepmcParams(topic, from, to)}
      [] source = core             -> {CoreParams(topic, from, to)}
      [] source = semantic_scholar -> {ScholarParams(topic, from, to)}
      [] source = github           -> {GithubParams(topic, from, to)}
      [] source = reddit           -> RedditParams(topic, from)
      [] source = dblp             -> {JDict(<<"q">>, <<JStr(topic)>>)}
      [] OTHER                     -> {JDict(<<"query">>, <<JStr(topic)>>)}

\* One turn of the loop of the adapter of a source.
Convert(source, hit, from, to) ==
    CASE source = web              -> WebResult(hit)
      [] source = news             -> NewsResult(hit)
      [] source = arxiv            -> ArxivResult(hit, from, to)
      [] source = semantic_scholar -> ScholarResult(hit)
      [] source = crossref         -> CrossrefResult(hit)
      [] source = dblp             -> DblpResult(hit, from, to)
      [] source = hackernews       -> HackernewsResult(hit)
      [] source = reddit           -> RedditResult(hit, from, to)
      [] source = openalex         -> OpenalexResult(hit)
      [] source = europepmc        -> EuropepmcResult(hit)
      [] source = core             -> CoreResult(hit)
      [] source = github           -> GithubResult(hit)

\* The loop of an adapter over what the provider answered: an exception in one
\* turn leaves the try block, and the adapter raises its wrapped error.
RECURSIVE SearchLoop(_, _, _, _, _)
SearchLoop(source, hits, from, to, found) ==
    IF hits = <<>> THEN AdapterReturns(found)
    ELSE LET turn == Convert(source, hits[1], from, to)
         IN  IF turn.raised THEN AdapterRaises
             ELSE SearchLoop(source, Tail(hits), from, to,
                             IF turn.skipped THEN found ELSE Append(found, turn.value))

\* search_web, search_news, search_papers, search_stories, search_posts
search(source, hits, from, to) == SearchLoop(source, hits, from, to, <<>>)

\* The name of the m-th author of a record with many authors.
AuthorName(m) == <<"A">> \o DigitsOf(m)

\* Eleven authors, one more than the adapters' limit of ten.
ManyAuthors == [m \in 1..11 |-> AuthorName(m)]

\* The texts the provider records are made of.
Text == JStr(SomeTitle)

\* What DuckDuckGo answers a text search with.
WebHits ==
    {JDict(<<"title", "body", "href">>, <<Text, Text, JStr(SomeUrl)>>),
     JDict(<<"title", "body", "href">>, <<Empty, Text, JStr(SomeUrl)>>),
     JDict(<<"title", "body", "href">>, <<JNone, Text, JStr(SomeUrl)>>),
     JDict(<<"title">>, <<Text>>),
     JDict(<<"title", "body", "href">>, <<Text, JNone, JNone>>),
     JDict(<<"body">>, <<Text>>)}

\* What DuckDuckGo answers a news search with.
NewsHits ==
    {JDict(<<"title", "body", "url", "date", "source">>,
           <<Text, Text, JStr(SomeUrl), JStr(ProviderDate), JStr(SomeName)>>),
     JDict(<<"title", "body", "url", "date", "source">>,
           <<Empty, Text, JStr(SomeUrl), JStr(DayA), JStr(SomeName)>>),
     JDict(<<"title", "date">>, <<Text, JStr(NotADate)>>),
     JDict(<<"title">>, <<Text>>),
     JDict(<<"title", "date">>, <<Text, JNone>>),
     JDict(<<"title", "source">>, <<Text, JNone>>)}

\* The papers the arxiv client yields.
ArxivPapers ==
    {[title |-> t, summary |-> SomeTitle, entry_id |-> SomeUrl, published |-> d,
      authors |-> <<[name |-> SomeName]>>] :
        t \in {SomeTitle, <<>>}, d \in {Date(2024, 1, 14), Date(2024, 1, 15), Date(2024, 1, 16)}}
    \cup
    {[title |-> SomeTitle, summary |-> SomeTitle, entry_id |-> SomeUrl,
      published |-> Date(2024, 1, 15), authors |-> [m \in 1..11 |-> [name |-> ManyAuthors[m]]]]}

\* What Semantic Scholar answers with: the papers of the test fixture, and
\* papers with fields missing or null.
ScholarPapers ==
    {JDict(<<"title", "abstract", "url", "authors", "year", "externalIds">>,
           <<Text, Text, JStr(SomeUrl), JList(<<JDict(<<"name">>, <<JStr(SomeName)>>)>>),
             JInt(<<"2", "0", "1", "7">>), JDict(<<"DOI">>, <<JStr(SomeDoi)>>)>>),
     JDict(<<"title", "abstract", "url", "authors", "year", "externalIds">>,
           <<Text, Text, Empty, JList(<<JDict(<<"name">>, <<JStr(SomeName)>>)>>),
             JInt(<<"2", "0", "1", "9">>), JDict(<<"DOI">>, <<JStr(SomeDoi)>>)>>),
     JDict(<<"title", "abstract", "url", "authors", "year", "externalIds">>,
           <<Text, JNone, Empty, JList(<<>>), JNone, JNone>>),
     JDict(<<"title", "url", "authors">>,
           <<Text, JStr(SomeUrl),
             JList([m \in 1..11 |-> JDict(<<"name">>, <<JStr(ManyAuthors[m])>>)])>>),
     JDict(<<"title", "abstract", "url", "authors", "year", "externalIds">>,
           <<Text, JNone, JNone, JNone, JNone, JNone>>),
     JDict(<<"title">>, <<Text>>),
     JDict(<<"title", "year">>, <<Empty, JInt(<<"2", "0", "1", "9">>)>>),
     JDict(<<"year">>, <<JInt(<<"2", "0", "1", "9">>)>>)}

\* What CrossRef answers with.
CrossrefItems ==
    {JDict(<<"title", "author", "issued", "abstract", "URL">>,
           <<JList(<<Text>>),
             JList(<<JDict(<<"given", "family">>, <<JStr(SomeName), JStr(SomeName)>>)>>),
             JDict(<<"date-parts">>, <<JList(<<JList(<<JInt(<<"2", "0", "2", "4">>), JInt(<<"3">>)>>)>>)>>),
             Text, JStr(SomeUrl)>>),
     JDict(<<"title", "DOI">>, <<JList(<<Empty>>), JStr(SomeDoi)>>),
     JDict(<<"title", "author", "URL">>,
           <<JList(<<Text>>),
             JList([m \in 1..11 |-> JDict(<<"family">>, <<JStr(ManyAuthors[m])>>)]),
             JStr(SomeUrl)>>),
     JDict(<<"title", "issued">>,
           <<JList(<<Text>>), JDict(<<"date-parts">>, <<JList(<<JList(<<JNone>>)>>)>>)>>),
     JDict(<<"title", "author", "issued", "abstract", "URL">>,
           <<JList(<<Text>>), JNone, JNone, JNone, JNone>>),
     JDict(<<"title">>, <<JList(<<Text>>)>>),
     JDict(<<"title">>, <<JList(<<>>)>>)}

DblpInfo(ks, vals) == JDict(<<"info">>, <<JDict(ks, vals)>>)

\* What DBLP answers with: its years are texts.
DblpHits ==
    {DblpInfo(<<"title", "year", "doi", "authors">>,
              <<Text, JStr(<<"2", "0", "2", "1">>), JStr(SomeDoi),
                JDict(<<"author">>, <<JDict(<<"text">>, <<JStr(SomeName)>>)>>)>>),
     DblpInfo(<<"title", "year", "ee">>, <<Text, JStr(<<"2", "0", "2", "0">>), JStr(SomeUrl)>>),
     DblpInfo(<<"title", "ee", "authors">>,
              <<Text, JStr(SomeUrl),
                JDict(<<"author">>,
                      <<JList([m \in 1..11 |-> JDict(<<"text">>, <<JStr(ManyAuthors[m])>>)])>>)>>),
     DblpInfo(<<"title", "year">>, <<Text, JStr(<<"2", "0", "2", "2">>)>>),
     DblpInfo(<<"title", "year", "doi", "authors", "url">>, <<Text, JNone, JNone, JNone, JNone>>),
     DblpInfo(<<"title">>, <<Text>>),
     DblpInfo(<<"title", "year">>, <<Empty, JStr(<<"2", "0", "2", "1">>)>>),
     JDict(<<>>, <<>>)}

\* What the HackerNews search answers with.
HackernewsHits ==
    {JDict(<<"title", "url", "created_at", "author", "objectID", "points", "num_comments">>,
           <<Text, JStr(SomeUrl), JStr(IsoStamp), JStr(SomeName), JStr(<<"7">>),
             JInt(<<"5">>), JInt(<<"2">>)>>),
     JDict(<<"title", "created_at">>, <<Text, JStr(IsoOldStamp)>>),
     JDict(<<"title", "created_at">>, <<Text, JStr(NotADate)>>),
     JDict(<<"title", "url", "created_at", "author", "story_text", "points">>,
           <<Text, JNone, JNone, JNone, JNone, JNone>>),
     JDict(<<"title">>, <<Text>>),
     JDict(<<"title", "url">>, <<Empty, JStr(SomeUrl)>>),
     JDict(<<"url">>, <<JStr(SomeUrl)>>)}

RedditPost(ks, vals) == JDict(<<"data">>, <<JDict(ks, vals)>>)

\* 2024-01-14 23:59:59, 2024-01-15 00:00:00 and 2024-01-16 00:00:00 UTC
Timestamps ==
    {<<"1", "7", "0", "5", "2", "7", "6", "7", "9", "9">>,
     <<"1", "7", "0", "5", "2", "7", "6", "8", "0", "0">>,
     <<"1", "7", "0", "5", "3", "6", "3", "2", "0", "0">>}

\* What the Reddit search answers with.
RedditChildren ==
    {RedditPost(<<"title", "created_utc", "permalink", "author", "selftext", "subreddit">>,
                <<Text, JInt(t), JStr(<<"/", "r">>), JStr(SomeName), Text, Text>>) :
        t \in Timestamps}
    \cup
    {RedditPost(<<"title", "created_utc", "permalink", "url", "author", "selftext">>,
                <<Text, JNone, JNone, JNone, JNone, JNone>>),
     RedditPost(<<"title">>, <<Text>>),
     RedditPost(<<"title", "created_utc">>, <<Empty, JInt(<<"1", "7", "0", "5", "2", "7", "6", "8", "0", "0">>)>>),
     JDict(<<>>, <<>>)}

\* What OpenAlex answers with: authorships are dicts whose author is a dict.
OpenalexWorks ==
    {JDict(<<"title", "authorships", "publication_date", "abstract_inverted_index", "doi">>,
           <<Text, JList(<<JDict(<<"author">>, <<JDict(<<"display_name">>, <<JStr(SomeName)>>)>>)>>),
             JStr(DayA), JDict(<<<<"c", "a", "t">>, <<"T", "h", "e">>>>,
                               <<JList(<<JInt(<<"1">>)>>), JList(<<JInt(<<"0">>)>>)>>),
             JStr(SomeUrl)>>),
     JDict(<<"title", "authorships">>,
           <<Text, JList([m \in 1..11 |->
                            JDict(<<"author">>,
                                  <<JDict(<<"display_name">>, <<JStr(ManyAuthors[m])>>)>>)])>>),
     JDict(<<"title", "publication_year", "id">>,
           <<Text, JInt(<<"2", "0", "2", "0">>), JStr(SomeUrl)>>),
     JDict(<<"title", "authorships", "publication_date", "abstract_inverted_index", "doi", "id">>,
           <<Text, JNone, JNone, JNone, JNone, JNone>>),
     JDict(<<"title">>, <<Text>>),
     JDict(<<"title", "doi">>, <<Empty, JStr(SomeUrl)>>)}

\* What Europe PMC answers with.
EuropepmcItems ==
    {JDict(<<"title", "pubYear", "authorString", "abstractText", "doi">>,
           <<Text, JStr(<<"2", "0", "2", "0">>), JStr(SomeName \o <<",", " ">> \o SomeName),
             Text, JStr(SomeDoi)>>),
     JDict(<<"title", "authorString", "pmid">>,
           <<Text, JStr(Join(ManyAuthors, <<",", " ">>)), JStr(<<"7">>)>>),
     JDict(<<"title", "id", "isOpenAccess">>, <<Text, JStr(<<"7">>), JStr(<<"Y">>)>>),
     JDict(<<"title", "pubYear", "authorString", "abstractText", "doi">>,
           <<Text, JNone, JNone, JNone, JNone>>),
     JDict(<<"title">>, <<Text>>),
     JDict(<<"title", "doi">>, <<Empty, JStr(SomeDoi)>>)}

\* What CORE answers with: an author is a dict or a name.
CoreWorks ==
    {JDict(<<"title", "authors", "publishedDate", "abstract", "doi">>,
           <<Text, JList(<<JDict(<<"name">>, <<JStr(SomeName)>>), JStr(SomeName)>>),
             JStr(IsoStamp), Text, JStr(SomeDoi)>>),
     JDict(<<"title", "authors", "downloadUrl">>,
           <<Text, JList([m \in 1..11 |-> JDict(<<"name">>, <<JStr(ManyAuthors[m])>>)]),
             JStr(SomeUrl)>>),
     JDict(<<"title", "yearPublished", "id">>,
           <<Text, JInt(<<"2", "0", "2", "0">>), JInt(<<"7">>)>>),
     JDict(<<"title", "authors", "publishedDate", "abstract", "doi">>,
           <<Text, JNone, JNone, JNone, JNone>>),
     JDict(<<"title">>, <<Text>>),
     JDict(<<"title", "doi">>, <<Empty, JStr(SomeDoi)>>)}

\* What the GitHub repository search answers with.
GithubRepos ==
    {JDict(<<"name", "full_name", "updated_at", "description", "owner", "html_url">>,
           <<Text, JStr(SomeName \o <<"/">> \o SomeTitle), JStr(IsoStamp), Text,
             JDict(<<"login">>, <<JStr(SomeName)>>), JStr(SomeUrl)>>),
     JDict(<<"name", "html_url">>, <<Text, JStr(SomeUrl)>>),
     JDict(<<"name", "updated_at", "description", "owner", "html_url">>,
           <<Text, JNone, JNone, JNone, JNone>>),
     JDict(<<"name", "description", "owner">>, <<Text, JNone, JDict(<<"login">>, <<JNone>>)>>),
     JDict(<<"name">>, <<Text>>),
     JDict(<<"name", "html_url">>, <<Empty, JStr(SomeUrl)>>)}

\* The records the provider of a source may answer with.
ProviderRecords(source) ==
    CASE source = web              -> WebHits
      [] source = news             -> NewsHits
      [] source = arxiv            -> ArxivPapers
      [] source = semantic_scholar -> ScholarPapers
      [] source = crossref         -> CrossrefItems
      [] source = dblp             -> DblpHits
      [] source = hackernews       -> HackernewsHits
      [] source = reddit           -> RedditChildren
      [] source = openalex         -> OpenalexWorks
      [] source = europepmc        -> EuropepmcItems
      [] source = core             -> CoreWorks
      [] source = github           -> GithubRepos

\* The most records one provider response holds.
MaxHits == 2

\* The words of an abstract.
WordThe == <<"T", "h", "e">>

WordCat == <<"c", "a", "t">>

\* The most positions one word of an inverted index holds.
MaxPositions == 2

\* The positions a word may hold, in any order and with repetitions.
PositionLists == SeqsUpTo({JInt(<<"0">>), JInt(<<"1">>), JInt(<<"2">>)}, MaxPositions)

\* The values of abstract_inverted_index: None, the empty dict, dicts of one or
\* two words, and a dict with a word that maps to None.
InvertedIndexes ==
    {JNone, JDict(<<>>, <<>>), JDict(<<WordThe, WordCat>>, <<JList(<<JInt(<<"0">>)>>), JNone>>)}
    \cup {JDict(<<WordCat>>, <<JList(p)>>) : p \in PositionLists}
    \cup {JDict(<<WordThe, WordCat>>, <<JList(p), JList(q)>>) : p, q \in PositionLists}

\* date_from and date_to: not given, or a day.
DateArgs == {JNone, JStr(DayA), JStr(DayB)}

\* _extract_abstract, called on its own.
ExtractAbstract ==
    /\ pc = "_extract_abstract"
    /\ abstract_text' = _extract_abstract(abstract_inverted_index)
    /\ pc' = "done"
    /\ UNCHANGED <<entry, max_results, filter_batch_size, rewritten, adapter, provider,
                   date_from, date_to, request, abstract_inverted_index, mainVars, selectVars,
                   query, collectVars, results, filterVars, response, analysis, saved, error,
                   exit_code, calls>>

\* One adapter, called on its own: the whole search, from the provider's
\* response to the list returned or the wrapped error raised.
AdapterSearch ==
    /\ pc = "search"
    /\ \E outcome \in {search(adapter, provider, date_from, date_to)} :
          /\ results' = outcome.results
          /\ error' = IF outcome.raised THEN Error(SearchFailedPrefix) ELSE error
    /\ request' \in Requests(adapter, Topic, date_from, date_to)
    /\ calls' = Append(calls, Call("search", adapter))
    /\ pc' = "done"
    /\ UNCHANGED <<entry, max_results, filter_batch_size, rewritten, adapter, provider,
                   date_from, date_to, abstract_inverted_index, abstract_text, mainVars,
                   selectVars, query, collectVars, filterVars, response, analysis, saved,
                   exit_code>>

(***************************************************************************)
(* Specifications                                                          *)
(***************************************************************************)

\* A whole run of main.
Init ==
    \E enabled \in SourceLists, exclude \in ExcludeArgs, requested \in MaxResultsArgs :
        /\ Entered("main", enabled, exclude, <<>>, FALSE, <<>>, <<>>)
        /\ max_results = requested
        /\ filter_batch_size = 1
        /\ NoAdapter

Next ==
    \/ DetermineSources
    \/ DecideSelection
    \/ SelectSources
    \/ AdoptSelection
    \/ BuildQuery
    \/ CollectStep
    \/ CollectReturn
    \/ AfterCollect
    \/ FilterEnter
    \/ JudgeStep
    \/ FilterReturn
    \/ AfterFilter
    \/ AnalyzeResearch
    \/ SaveReport
    \/ Finish
    \/ HandleError

Spec == Init /\ [][Next]_vars

\* select_sources on its own.
InitSelect ==
    \E candidates \in CandidateLists, talk \in BOOLEAN :
        Start("select_sources", <<>>, <<>>, candidates, talk, <<>>, <<>>)

NextSelect == SelectSources

SpecSelect == InitSelect /\ [][NextSelect]_vars

\* _collect_results on its own.
InitCollect ==
    \E sources \in SourceLists :
        Start("_collect_results", <<>>, <<>>, <<>>, FALSE, sources, <<>>)

NextCollect ==
    \/ CollectStep
    \/ CollectReturn

SpecCollect == InitCollect /\ [][NextCollect]_vars

\* filter_relevant_results on its own.
InitFilter ==
    \E found \in ResultLists, batch \in BatchSizes :
        /\ Entered("filter_relevant_results", <<>>, <<>>, <<>>, FALSE, <<>>, found)
        /\ max_results = DefaultQuery.max_results
        /\ filter_batch_size = batch
        /\ NoAdapter

NextFilter ==
    \/ FilterEnter
    \/ JudgeStep
    \/ FilterReturn

SpecFilter == InitFilter /\ [][NextFilter]_vars

\* analyze_research on its own.
InitAnalyze ==
    \E found \in AnalyzedLists :
        Start("analyze_research", <<>>, <<>>, <<>>, FALSE, <<>>, found)

NextAnalyze == AnalyzeResearch

SpecAnalyze == InitAnalyze /\ [][NextAnalyze]_vars

\* One adapter on its own.
InitAdapter ==
    \E source \in Adapters, from \in DateArgs, to \in DateArgs :
        \E hits \in SeqsUpTo(ProviderRecords(source), MaxHits) :
            /\ Entered("search", <<>>, <<>>, <<>>, FALSE, <<>>, <<>>)
            /\ max_results = DefaultQuery.max_results
            /\ filter_batch_size = 1
            /\ adapter = source
            /\ provider = hits
            /\ date_from = from
            /\ date_to = to
            /\ request = JNone
            /\ abstract_inverted_index = JNone
            /\ abstract_text = <<>>

NextAdapter == AdapterSearch

SpecAdapter == InitAdapter /\ [][NextAdapter]_vars

\* _extract_abstract on its own.
InitExtract ==
    \E given \in InvertedIndexes :
        /\ Entered("_extract_abstract", <<>>, <<>>, <<>>, FALSE, <<>>, <<>>)
        /\ max_results = DefaultQuery.max_results
        /\ filter_batch_size = 1
        /\ adapter = openalex
        /\ provider = <<>>
        /\ date_from = JNone
        /\ date_to = JNone
        /\ request = JNone
        /\ abstract_inverted_index = given
        /\ abstract_text = <<>>

NextExtract == ExtractAbstract

SpecExtract == InitExtract /\ [][NextExtract]_vars

\* rewrite_query on its own.
InitRewrite ==
    \E talk \in BOOLEAN :
        Start("rewrite_query", <<>>, <<>>, <<>>, talk, <<>>, <<>>)

NextRewrite == RewriteQuery

SpecRewrite == InitRewrite /\ [][NextRewrite]_vars

(***************************************************************************)
(* Properties                                                              *)
(***************************************************************************)

ErrorWord ==
    <<"E", "r", "r", "o", "r">>

AnalyzeFailedMarker ==
    <<"F", "a", "i", "l", "e", "d", " ", "t", "o", " ", "a", "n", "a", "l", "y", "z", "e", " ",
      "r", "e", "s", "e", "a", "r", "c", "h", " ", "w", "i", "t", "h", " ", "L", "L", "M">>

NoResultsMarker ==
    <<"N", "o", " ", "r", "e", "s", "e", "a", "r", "c", "h", " ", "r", "e", "s", "u", "l", "t",
      "s", " ", "f", "o", "u", "n", "d">>

\* The chat-completion call fails: it raises, or answers without a usable content.
CallFails(r) == r.raises \/ r.choices = <<>> \/ r.choices[1] = <<>>

\* What json.loads makes of the reply r.
Decoded(r) == JsonLoads(ExtractJson(r.choices[1]))

\* The calls of the log made for fn.
CallsOf(fn) == {m \in 1..Len(calls) : calls[m].fn = fn}

\* filter_relevant_results has returned to its caller.
FilterReturned == pc = ReturnTo("filtered")

\* The loop of the filter is about to judge results[res_idx].
JudgingOne == pc = "judging" /\ res_idx <= Len(results)

\* The step keeps the result it judges.
KeptOne ==
    /\ relevant_results' = Append(relevant_results, results[res_idx])
    /\ filtered_out' = filtered_out

\* The step drops the result it judges.
DroppedOne ==
    /\ relevant_results' = relevant_results
    /\ filtered_out' = filtered_out + 1

\* C1: when filter_relevant_results returns, stats.total is the number of input
\* results, stats.relevant is the length of the returned list, and relevant plus
\* filtered_out equals total, whatever the judge did for each result.
C1_StatsAddUp ==
    FilterReturned =>
        /\ stats.total = Len(results)
        /\ stats.relevant = Len(relevant_results)
        /\ stats.relevant + stats.filtered_out = stats.total

\* Three results went in, two came back and one was dropped.
C1_MixedVerdicts ==
    /\ FilterReturned
    /\ Len(results) = 3
    /\ Len(relevant_results) = 2
    /\ stats = Stats(3, 2, 1)

\* select_sources has returned (or raised) and its caller has not yet moved on.
SelectEnded == pc = ReturnTo("selected")

\* C2: every name in the list select_sources returns is a member of the candidate
\* list it was given, whatever the model replied.
C2_OnlyCandidates ==
    SelectEnded =>
        \A m \in 1..Len(selection.selected) : selection.selected[m] \in Elements(available_sources)

\* The model named a source that is no candidate, and it was dropped from the selection.
C2_InventedNameDropped ==
    /\ SelectEnded
    /\ available_sources = <<arxiv, web>>
    /\ response = ApiAnswers(<<SelInvalidName>>)
    /\ selection.selected = <<arxiv, web>>

\* The reply decoded to an object whose selection, once the unknown names are dropped,
\* is shorter than the threshold.
UnderSelected ==
    /\ ~CallFails(response)
    /\ Decoded(response).ok
    /\ Decoded(response).v.k = "dict"
    /\ LET chosen == DictGet(Decoded(response).v, KeySelected, JList(<<>>))
       IN  /\ Iterable(chosen)
           /\ Len(ValidNames(Iterate(chosen), available_sources)) < MinSelected

\* C3: for a non-empty candidate list, a valid selection shorter than the threshold
\* makes select_sources return the whole candidate list with a reasoning keyed
\* "fallback", also when the candidate list itself is shorter than the threshold.
C3_UnderSelectionFallsBack ==
    (SelectEnded /\ available_sources # <<>> /\ UnderSelected) =>
        /\ selection.selected = available_sources
        /\ HasKey(selection.reasoning, KeyFallback)

\* Two candidates, one selected: the one is returned, with the model's reasoning.
C3_TwoCandidatesOneReturned ==
    /\ SelectEnded
    /\ available_sources = <<arxiv, web>>
    /\ response = ApiAnswers(<<SelOne>>)
    /\ selection.selected = <<arxiv>>
    /\ ~HasKey(selection.reasoning, KeyFallback)

\* The replies of the model that are no JSON object.
NoJsonObject == {SelNotJson, SelList, SelFenceNoBraces}

\* C4: select_sources never raises; when the call fails or the reply is no JSON
\* object, it returns the candidate list unchanged, in its order, with a reasoning
\* that has the key "error".
C4_FailureReturnsCandidates ==
    SelectEnded =>
        /\ ~selection.raised
        /\ (/\ CallsOf("select_sources") # {}
            /\ (CallFails(response) \/ response.choices[1] \in NoJsonObject))
           => /\ selection.selected = available_sources
              /\ HasKey(selection.reasoning, KeyError)

\* The reply was prose: the three candidates came back with "JSON parse failed".
C4_ProseReply ==
    /\ SelectEnded
    /\ Len(available_sources) = 3
    /\ response = ApiAnswers(<<SelNotJson>>)
    /\ selection = Selection(available_sources, JDict(<<KeyError>>, <<JStr(JsonParseFailed)>>), FALSE)

\* How far the judgement of a result got: the call failed, the text handed to the
\* decoder was not JSON, it decoded to something other than an object, or to an object.
ReplyKind(r) ==
    IF CallFails(r) THEN "failed"
    ELSE IF ~Decoded(r).ok THEN "undecodable"
    ELSE IF Decoded(r).v.k # "dict" THEN "other"
    ELSE "object"

\* C5 (as stated): a result is kept whenever no judgement is obtained for it, be it
\* that the judge call fails or that the reply does not decode to a JSON object.
C5_KeptWithoutJudgement ==
    [][JudgingOne =>
        \A r \in {response'} : ReplyKind(r) # "object" => KeptOne]_vars

\* C5: a result is kept when the judge call fails and when the reply decodes to
\* something other than an object; when the text handed to the decoder is not JSON,
\* the result is kept if that text contains "true" in any letter case and dropped
\* otherwise.
C5_KeptUnlessNoTrueInText ==
    [][JudgingOne =>
        \A r \in {response'} : \A kind \in {ReplyKind(r)} :
            /\ kind \in {"failed", "other"} => KeptOne
            /\ kind = "undecodable" =>
                  \A text \in {Lower(ExtractJson(r.choices[1]))} :
                      IF Contains(text, TrueWord) THEN KeptOne ELSE DroppedOne]_vars

\* A reply in prose, without the word true, dropped the only result.
C5_ProseReplyDropped ==
    /\ FilterReturned
    /\ Len(results) = 1
    /\ response = ApiAnswers(<<JudgeProse>>)
    /\ relevant_results = <<>>
    /\ stats = Stats(1, 0, 1)

\* C6: when the judge call for a result fails, the result is kept with is_relevant
\* True and a reason containing "Error", the filter does not raise and goes on to the
\* next result; when the filter returns, one judge call was made for each result.
C6_JudgeFailureKeeps ==
    /\ [][(JudgingOne /\ CallFails(response')) =>
            /\ verdict'.is_relevant = JTrue
            /\ Contains(verdict'.reason.s, ErrorWord)
            /\ KeptOne
            /\ ~error'.raised
            /\ pc' = "judging"
            /\ res_idx' = res_idx + 1]_vars
    /\ [](FilterReturned => ~error.raised /\ Len(calls) = Len(results))

\* The call for the first of two results raised: it is kept and the second is next.
C6_FirstCallRaised ==
    /\ pc = "judging"
    /\ Len(results) = 2
    /\ res_idx = 2
    /\ response = ApiRaises(ApiErrorMsg)
    /\ relevant_results = <<results[1]>>
    /\ verdict.reason = JStr(ErrorPrefix \o ApiErrorMsg)

RECURSIVE Gathered(_)
\* The lists the adapters returned, joined in the order of the calls.
Gathered(outcomes) ==
    IF outcomes = <<>> THEN <<>>
    ELSE IF Head(outcomes).raised THEN Gathered(Tail(outcomes))
    ELSE Head(outcomes).results \o Gathered(Tail(outcomes))

\* _collect_results has returned to its caller.
CollectReturned == pc = ReturnTo("collected")

\* C7: when _collect_results returns, one adapter was called for each known name of
\* the active list, in the order of the list and whatever the earlier adapters did,
\* none for an unknown name, and the collected list is the lists of the adapters that
\* did not raise, joined in that order.
C7_CollectionSurvivesFailures ==
    CollectReturned =>
        /\ [m \in 1..Len(calls) |-> calls[m].arg] = Only(active_sources, AdapterNames)
        /\ \A m \in 1..Len(calls) : calls[m].fn = "search"
        /\ Len(attempts) = Len(calls)
        /\ results = Gathered(attempts)

\* The first adapter raised; the second was still called and its result is the collection.
C7_SecondSourceAfterFailure ==
    /\ CollectReturned
    /\ active_sources = <<arxiv, web>>
    /\ attempts[1].raised
    /\ results = <<Result(PaperA, web)>>

\* C8: a run whose collection, or whose filter, leaves no result exits with code 1
\* without a call of the analyzer and without a saved report; a run that has exited
\* with code 0 has saved a report.
C8_NoResultsExitOne ==
    /\ [][(\/ pc = "collected" /\ results = <<>>
           \/ pc = "filtered" /\ relevant_results = <<>>)
          => /\ pc' = "exited"
             /\ exit_code' = 1
             /\ CallsOf("analyze_research")' = {}
             /\ CallsOf("save_report")' = {}
             /\ saved' = <<>>]_vars
    /\ [](exit_code = 0 => Len(saved) = 1 /\ pc = "exited")

\* The filter judged two results and kept none: exit 1, nothing analyzed or saved.
C8_AllFilteredOut ==
    /\ pc = "exited"
    /\ exit_code = 1
    /\ stats = Stats(2, 0, 2)
    /\ results = <<>>
    /\ saved = <<>>

AnalyzeEnded == entry = "analyze_research" /\ pc = "done"

\* C10: for an empty list analyze_research returns, without a model call, a summary
\* containing "No research results found" and the single insight "No data available
\* for analysis".
C10_EmptyListShortCircuit ==
    (AnalyzeEnded /\ results = <<>>) =>
        /\ ~analysis.raised
        /\ Contains(analysis.value.summary, NoResultsMarker)
        /\ analysis.value.insights = <<NoDataInsight>>
        /\ ~analysis.called
        /\ calls = <<>>

\* The empty list was analyzed: the summary names the topic and no call was made.
C10_EmptyListAnalyzed ==
    /\ AnalyzeEnded
    /\ results = <<>>
    /\ analysis.value.summary = NoResultsPrefix \o Topic
    /\ calls = <<>>

\* analyze_research has returned the parse of a reply.
ReplyParsed == AnalyzeEnded /\ ~analysis.raised /\ analysis.called

\* The first ten of the eleven insight lines of AnEleven, their markers stripped.
FirstTenOfEleven ==
    [m \in 1..10 |-> SubSeq(Split(AnEleven, "\n")[m + 1], 3, Len(Split(AnEleven, "\n")[m + 1]))]

\* C11: the insights the parser returns are at least one and at most ten: eleven
\* qualifying lines are cut to the first ten, and a reply neither tier finds an
\* insight in yields the single placeholder "Analysis provided in summary".
C11_InsightsOneToTen ==
    ReplyParsed =>
        /\ Len(analysis.value.insights) >= 1
        /\ Len(analysis.value.insights) <= 10
        /\ response = ApiAnswers(<<AnEleven>>) => analysis.value.insights = FirstTenOfEleven
        /\ response = ApiAnswers(<<AnShort>>) => analysis.value.insights = <<PlaceholderInsight>>

\* A reply with eleven insight lines came back with ten insights.
C11_ElevenCutToTen ==
    /\ ReplyParsed
    /\ response = ApiAnswers(<<AnEleven>>)
    /\ Len(analysis.value.insights) = 10

\* C12: within a run no source adapter is invoked twice, whatever the enabled list
\* holds and whatever the selector's model replies.
C12_EachAdapterOnce ==
    \A m \in CallsOf("search") : \A n \in CallsOf("search") :
        calls[m].arg = calls[n].arg => m = n

\* The selector's model named arxiv three times: the arXiv adapter was called three times.
C12_ArxivSearchedThrice ==
    /\ enable_selection
    /\ enabled_sources = <<arxiv, web>>
    /\ selection.selected = <<arxiv, arxiv, arxiv>>
    /\ active_sources = <<arxiv, arxiv, arxiv>>
    /\ [m \in 1..Len(calls) |-> calls[m].fn] = <<"select_sources", "search", "search", "search">>
    /\ \A m \in CallsOf("search") : calls[m].arg = arxiv

\* The names --exclude-source rules out, for each value the option takes here.
ExcludedNames ==
    IF exclude_source = web THEN {web}
    ELSE IF exclude_source = ExcludeWebReddit THEN {web, reddit}
    ELSE {}

\* C13: every adapter invoked in a run belongs to a source that is enabled in the
\* configuration, known to main and not named in --exclude-source, with or without
\* source selection and whatever the selector's model replied.
C13_OnlyActiveSourcesSearched ==
    \A m \in CallsOf("search") :
        /\ calls[m].arg \in Elements(enabled_sources)
        /\ calls[m].arg \in Elements(ALL_SOURCES)
        /\ calls[m].arg \notin ExcludedNames

\* web was enabled and excluded, with blanks around its name; selection ran; only
\* arXiv was searched.
C13_ExcludedWebNotSearched ==
    /\ pc = "exited"
    /\ enabled_sources = <<web, arxiv>>
    /\ exclude_source = ExcludeWebReddit
    /\ enable_selection
    /\ [m \in 1..Len(calls) |-> calls[m].fn] = <<"select_sources", "search">>
    /\ calls[2].arg = arxiv

\* The names of the model's selection that are candidates, in the model's order, when
\* the reply decodes to an object with a selection; <<>> otherwise.
ValidSelection ==
    IF CallFails(response) \/ ~Decoded(response).ok THEN <<>>
    ELSE IF Decoded(response).v.k # "dict" THEN <<>>
    ELSE ValidNames(Iterate(DictGet(Decoded(response).v, KeySelected, JList(<<>>))),
                    available_sources)

\* C14: when the model's reply names at least two valid candidates, select_sources
\* returns exactly those names, in the model's order, without the invalid ones.
C14_TwoValidNamesReturned ==
    (SelectEnded /\ Len(ValidSelection) >= 2) => selection.selected = ValidSelection

\* Two valid names and an invalid one out of three candidates: all three candidates
\* came back, as a fallback.
C14_TwoOfThreeFallsBack ==
    /\ SelectEnded
    /\ available_sources = <<arxiv, web, news>>
    /\ response = ApiAnswers(<<SelInvalidName>>)
    /\ selection = SelectFallback(available_sources)

\* An adapter called on its own has returned or raised.
AdapterEnded == entry = "search" /\ pc = "done"

\* C15: whatever the provider answers, no record the adapter returns has an empty
\* title.
C15_NoEmptyTitleReturned ==
    AdapterEnded => \A m \in 1..Len(results) : results[m].title # <<>>

\* search_web was answered with one hit whose title is the empty text, and
\* returned it as a result.
C15_WebReturnsEmptyTitle ==
    /\ AdapterEnded
    /\ adapter = web
    /\ provider = <<JDict(<<"title", "body", "href">>, <<Empty, Text, JStr(SomeUrl)>>)>>
    /\ ~error.raised
    /\ Len(results) = 1
    /\ results[1].title = <<>>

\* A text of the fixed-width, zero-padded form YYYY-MM-DD.
IsIsoDate(s) ==
    /\ Len(s) = 10
    /\ \A m \in {1, 2, 3, 4, 6, 7, 9, 10} : s[m] \in Digits
    /\ s[5] = "-"
    /\ s[8] = "-"

\* C16: whatever the provider answers, a null year or date included, the
\* published_date of every returned record is empty or of the form YYYY-MM-DD.
C16_DatesEmptyOrIso ==
    AdapterEnded =>
        \A m \in 1..Len(results) :
            results[m].published_date = <<>> \/ IsIsoDate(results[m].published_date)

\* The paper of the Semantic Scholar test fixture whose year is null came back
\* dated None-01-01.
C16_NullYearDatedNone ==
    /\ AdapterEnded
    /\ adapter = semantic_scholar
    /\ provider = <<JDict(<<"title", "abstract", "url", "authors", "year", "externalIds">>,
                          <<Text, JNone, Empty, JList(<<>>), JNone, JNone>>)>>
    /\ Len(results) = 1
    /\ results[1].published_date = NoneWord \o JanuaryFirst

\* The dict of a provider record that holds its fields.
Fields(source, hit) ==
    IF source = dblp THEN DictGet(hit, "info", JDict(<<>>, <<>>))
    ELSE IF source = reddit THEN DictGet(hit, "data", JDict(<<>>, <<>>))
    ELSE hit

\* A provider record with a non-empty title, every other field of which is null
\* or missing.
TitleOnly(source, hit) ==
    LET fields == Fields(source, hit)
        title  == DictGet(fields, "title", JNone)
    IN  /\ IF source = crossref
           THEN title.k = "list" /\ title.items # <<>> /\ title.items[1].k = "str"
                /\ title.items[1].s # <<>>
           ELSE title.k = "str" /\ title.s # <<>>
        /\ \A m \in 1..Len(fields.keys) : fields.keys[m] # "title" => fields.items[m] = JNone

\* C17: when every record of the provider's response has a non-empty title and
\* nothing else but null or missing fields, the search does not raise and returns
\* one record for each of them.
C17_TitleOnlyRecordsReturned ==
    (/\ AdapterEnded
     /\ adapter # arxiv
     /\ \A m \in 1..Len(provider) : TitleOnly(adapter, provider[m]))
        => ~error.raised /\ Len(results) = Len(provider)

\* Semantic Scholar answered with a paper that has a title alone and a paper
\* whose other fields are all null: the search raised, and no record came back.
C17_NullAuthorsLoseAll ==
    /\ AdapterEnded
    /\ adapter = semantic_scholar
    /\ provider = <<JDict(<<"title">>, <<Text>>),
                    JDict(<<"title", "abstract", "url", "authors", "year", "externalIds">>,
                          <<Text, JNone, JNone, JNone, JNone, JNone>>)>>
    /\ error.raised
    /\ results = <<>>

\* max_results brought into the bounds of ResearchQuery.
Clamped(n) ==
    IF n < MaxResultsFloor THEN MaxResultsFloor
    ELSE IF n > MaxResultsCeiling THEN MaxResultsCeiling
    ELSE n

\* C18 as stated: whatever --max-results is, building the query proceeds to
\* collection, with max_results brought into 1..100.
C18_ClampedAndCollects ==
    [][pc = "query" => pc' = "_collect_results" /\ query'.max_results = Clamped(max_results)]_vars

\* C18: max_results is checked against 1..100, not clamped. A run started with a
\* --max-results outside the range never reaches collection, searches no source
\* and exits with status 1; a run that searches a source has the requested value
\* in its query.
C18_OutOfRangeRejected ==
    entry = "main" =>
        IF max_results < MaxResultsFloor \/ max_results > MaxResultsCeiling
        THEN /\ CallsOf("search") = {}
             /\ pc \notin {"_collect_results", "collected"}
             /\ pc = "exited" => exit_code = 1
        ELSE CallsOf("search") # {} => query.max_results = max_results

\* A run with --max-results 101 and a source to search ended with status 1 on the
\* validation error of the query, before any search.
C18_TooManyRequestedExitsOne ==
    /\ pc = "exited"
    /\ max_results = 101
    /\ active_sources # <<>>
    /\ error = Error(ValidationErrorMsg)
    /\ exit_code = 1
    /\ CallsOf("search") = {}

\* The day a text of the form YYYY-MM-DD names, as a number that grows with the
\* calendar.
DateNumber(s) ==
    IntOf(SubSeq(s, 1, 4)) * 10000 + IntOf(SubSeq(s, 6, 7)) * 100 + IntOf(SubSeq(s, 9, 10))

\* C20: of the arXiv, DBLP and Reddit adapters, every returned record with a
\* published_date lies on or after date_from and on or before date_to, for
\* whichever of the two is given.
C20_ClientSideDatesInRange ==
    (AdapterEnded /\ adapter \in {arxiv, dblp, reddit}) =>
        \A m \in 1..Len(results) :
            \A day \in {results[m].published_date} :
                day # <<>> =>
                    /\ Truthy(date_from) => DateNumber(date_from.s) <= DateNumber(day)
                    /\ Truthy(date_to) => DateNumber(day) <= DateNumber(date_to.s)

\* arXiv yielded a paper of the day before date_from and a paper of the day that
\* is both date_from and date_to: the first was dropped, the second returned.
C20_BoundaryDayKept ==
    /\ AdapterEnded
    /\ adapter = arxiv
    /\ date_from = JStr(DayA)
    /\ date_to = JStr(DayA)
    /\ Len(provider) = 2
    /\ provider[1].published = Date(2024, 1, 14)
    /\ provider[2].published = Date(2024, 1, 15)
    /\ Len(results) = 1
    /\ results[1].published_date = DayA

\* rewrite_query, called on its own, has ended.
RewriteEnded == entry = "rewrite_query" /\ pc = "done"

\* C19: rewrite_query never raises and returns a str; on a failed call, an empty
\* reply or a reply that does not decode to a JSON object it returns the topic.
C19_RewriteReturnsString ==
    RewriteEnded =>
        /\ ~rewritten.raised
        /\ rewritten.returned
        /\ rewritten.value.k = "str"
        /\ ReplyKind(response) # "object" => rewritten.value = JStr(query.topic)

\* The model answered with an object whose query is null: rewrite_query returned
\* None.
C19_NullQueryReturned ==
    /\ RewriteEnded
    /\ response = ApiAnswers(<<RwNullQuery>>)
    /\ rewritten = Rewritten(JNone)

\* The adapters that hand the date bounds to their provider.
ServerSide == {openalex, crossref, europepmc, core, semantic_scholar, github}

\* The parameter of a request that carries the date restriction (the empty text
\* when the request has none).
DateFilter(source, params) ==
    CASE source \in {openalex, crossref} -> DictGet(params, "filter", Empty).s
      [] source = europepmc              -> DictGet(params, "query", Empty).s
      [] source \in {core, github}       -> DictGet(params, "q", Empty).s
      [] source = semantic_scholar       -> DictGet(params, "year", Empty).s

\* The date restriction of a request names a bound: the day for the providers
\* that filter by day, its year for those that filter by year.
Forwarded(source, params, bound) ==
    IF source \in {openalex, crossref, github}
    THEN Contains(DateFilter(source, params), bound.s)
    ELSE Contains(DateFilter(source, params), YearOf(bound))

\* C21: the request of an adapter that filters server-side restricts by every
\* bound it was given: date_from alone, date_to alone, or both.
C21_BoundsForwarded ==
    AdapterEnded /\ adapter \in ServerSide =>
        /\ Truthy(date_from) => Forwarded(adapter, request, date_from)
        /\ Truthy(date_to) => Forwarded(adapter, request, date_to)

\* Semantic Scholar was searched with date_to alone, and its request has no year
\* parameter.
C21_ScholarDropsUpperBound ==
    /\ AdapterEnded
    /\ adapter = semantic_scholar
    /\ ~Truthy(date_from)
    /\ date_to = JStr(DayA)
    /\ ~HasKey(request, "year")

\* a is b with some elements left out.
RECURSIVE IsSubSequence(_, _)
IsSubSequence(a, b) ==
    IF a = <<>> THEN TRUE
    ELSE IF b = <<>> THEN FALSE
    ELSE IF a[1] = b[1] THEN IsSubSequence(Tail(a), Tail(b))
    ELSE IsSubSequence(a, Tail(b))

\* The elements of a provider value that is a list (none otherwise).
ItemsOf(v) == IF v.k = "list" THEN v.items ELSE <<>>

\* The display names of the authors a provider record lists, in the provider's
\* order, for the providers that list several.
Listed(source, hit) ==
    CASE source = arxiv ->
            [m \in 1..Len(hit.authors) |-> hit.authors[m].name]
      [] source = semantic_scholar ->
            LET given == ItemsOf(DictGet(hit, "authors", JList(<<>>)))
            IN  [m \in 1..Len(given) |-> DictGet(given[m], "name", Empty).s]
      [] source = openalex ->
            LET given == ItemsOf(DictGet(hit, "authorships", JList(<<>>)))
            IN  [m \in 1..Len(given) |->
                    DictGet(DictGet(given[m], "author", JDict(<<>>, <<>>)), "display_name", Empty).s]
      [] source = crossref ->
            LET given == ItemsOf(DictGet(hit, "author", JList(<<>>)))
            IN  [m \in 1..Len(given) |->
                    Strip(DictGet(given[m], "given", Empty).s \o <<" ">>
                          \o DictGet(given[m], "family", Empty).s)]
      [] source = europepmc ->
            LET given == Split(DictGet(hit, "authorString", Empty).s, ",")
            IN  [m \in 1..Len(given) |-> Strip(given[m])]
      [] source = core ->
            LET given == ItemsOf(DictGet(hit, "authors", JList(<<>>)))
            IN  [m \in 1..Len(given) |->
                    IF given[m].k = "dict" THEN DictGet(given[m], "name", Empty).s ELSE given[m].s]
      [] source = dblp ->
            LET info  == DictGet(hit, "info", JDict(<<>>, <<>>))
                given == DictGet(DictGet(info, "authors", JDict(<<>>, <<>>)), "author", JList(<<>>))
                data  == IF given.k = "dict" THEN <<given>> ELSE ItemsOf(given)
            IN  [m \in 1..Len(data) |-> DictGet(data[m], "text", Empty).s]
      [] OTHER -> <<>>

\* C22: whatever the provider answers, the authors of every record an adapter
\* returns are at most ten, in the order the provider listed them.
C22_AuthorsCappedInOrder ==
    AdapterEnded =>
        \A m \in 1..Len(results) :
            /\ Len(results[m].authors) <= 10
            /\ \/ Len(results[m].authors) <= 1
               \/ \E n \in 1..Len(provider) :
                      IsSubSequence(results[m].authors, Listed(adapter, provider[n]))

\* Semantic Scholar answered with a paper of eleven authors, and the adapter
\* returned all eleven.
C22_ScholarReturnsEleven ==
    /\ AdapterEnded
    /\ adapter = semantic_scholar
    /\ \E m \in 1..Len(results) : results[m].authors = ManyAuthors

ExtractEnded == entry = "_extract_abstract" /\ pc = "done"

\* An inverted index: a dict that maps each word to a list of positions.
IsInvertedIndex(v) == v.k = "dict" /\ \A m \in 1..Len(v.items) : v.items[m].k = "list"

\* The occurrences an inverted index records: <<m, n>> is the n-th position of
\* its m-th word.
Occurrences(index) ==
    UNION {{<<m, n>> : n \in 1..Len(index.items[m].items)} : m \in 1..Len(index.keys)}

PositionOf(index, o) == IntOf(index.items[o[1]].items[o[2]].s)

\* The position of the i-th word of the text: the i-th smallest position of the
\* index, a position counted once for each occurrence at it.
PositionAt(index, i) ==
    LET upTo(p) == Cardinality({o \in Occurrences(index) : PositionOf(index, o) <= p})
        reach   == {PositionOf(index, o) : o \in Occurrences(index)}
    IN  CHOOSE p \in reach : upTo(p) >= i /\ \A q \in reach : upTo(q) >= i => p <= q

\* The text is the words of the index separated by single spaces, in increasing
\* order of position, each word once for each of its occurrences.
InPositionOrder(text, index) ==
    LET words == IF text = <<>> THEN <<>> ELSE Split(text, " ")
        places == 1..Len(words)
    IN  /\ Len(words) = Cardinality(Occurrences(index))
        /\ \A m \in 1..Len(index.keys) :
              \A p \in {PositionOf(index, o) : o \in Occurrences(index)} :
                  Cardinality({i \in places : words[i] = index.keys[m] /\ PositionAt(index, i) = p})
                  = Cardinality({o \in Occurrences(index) :
                                    o[1] = m /\ PositionOf(index, o) = p})

\* C23: _extract_abstract returns the words of an inverted index joined by single
\* spaces in increasing position order, a word with several positions once at
\* each of them, and the empty text for None and for the empty dict.
C23_AbstractInPositionOrder ==
    ExtractEnded =>
        IF ~Truthy(abstract_inverted_index) THEN abstract_text = <<>>
        ELSE IsInvertedIndex(abstract_inverted_index) =>
                InPositionOrder(abstract_text, abstract_inverted_index)

\* The index {"The": [0, 2], "cat": [1]} was given, and the text came out as
\* "The cat The".
C23_RepeatedWordPlaced ==
    /\ ExtractEnded
    /\ abstract_inverted_index
       = JDict(<<WordThe, WordCat>>,
               <<JList(<<JInt(<<"0">>), JInt(<<"2">>)>>), JList(<<JInt(<<"1">>)>>)>>)
    /\ abstract_text = WordThe \o <<" ">> \o WordCat \o <<" ">> \o WordThe

FromWord == <<" ", "f", "r", "o", "m", " ">>

\* How many results of a list carry a source tag.
CountFrom(found, source) == Cardinality({m \in 1..Len(found) : found[m].source = source})

\* The prompt of the one call analyze_research made.
PromptSent == calls[Len(calls)].arg

\* C24: the prompt analyze_research sends for a non-empty result list states how
\* many results come from each source ("2 from arxiv", "1 from web").
C24_PromptCountsSources ==
    AnalyzeEnded /\ results # <<>> /\ calls # <<>> =>
        \A m \in 1..Len(results) :
            Contains(PromptSent,
                     DigitsOf(CountFrom(results, results[m].source)) \o FromWord
                     \o results[m].source)

\* analyze_research was given two arxiv results and a web result, called the
\* model, and its prompt holds neither "2 from arxiv" nor "1 from web".
C24_TwoArxivOneWebUncounted ==
    /\ AnalyzeEnded
    /\ results = <<Result(PaperA, arxiv), Result(PaperA, arxiv), Result(PaperB, web)>>
    /\ calls # <<>>
    /\ ~Contains(PromptSent, <<"2">> \o FromWord \o arxiv)
    /\ ~Contains(PromptSent, <<"1">> \o FromWord \o web)

\* The stage of main an external call belongs to.
Stage(fn) ==
    CASE fn = "select_sources"   -> 1
      [] fn = "search"           -> 2
      [] fn = "_judge_relevance" -> 3
      [] fn = "analyze_research" -> 4
      [] fn = "save_report"      -> 5

\* The names of a list that main has an adapter for.
Known(sources) == SelectSeq(sources, LAMBDA name : name \in AdapterNames)

\* C25: in a run of main the stages come in one order and each at most once: no
\* adapter is called before the selection returned, no judgement is requested
\* before every active source was attempted, the analyzer is called only after
\* the filter finished, and the report is saved only after the analyzer returned
\* without an exception.
C25_StagesInOrder ==
    entry = "main" =>
        /\ \A m, n \in 1..Len(calls) : m < n => Stage(calls[m].fn) <= Stage(calls[n].fn)
        /\ \A fn \in {"select_sources", "analyze_research", "save_report"} :
              Cardinality(CallsOf(fn)) <= 1
        /\ CallsOf("search") # {} /\ enable_selection => selection # NoSelection
        /\ CallsOf("_judge_relevance") # {} =>
              Cardinality(CallsOf("search")) = Len(Known(active_sources))
        /\ CallsOf("analyze_research") # {} =>
              /\ Cardinality(CallsOf("search")) = Len(Known(active_sources))
              /\ IF enable_filter
                 THEN stats.total = Cardinality(CallsOf("_judge_relevance")) /\ stats.total > 0
                 ELSE CallsOf("_judge_relevance") = {}
        /\ CallsOf("save_report") # {} \/ saved # <<>> =>
              /\ CallsOf("analyze_research") # {}
              /\ analysis.called /\ ~analysis.raised

\* A run went through all five stages and ended with exit status 0.
C25_FullRun ==
    /\ entry = "main"
    /\ exit_code = 0
    /\ \A fn \in {"select_sources", "search", "_judge_relevance", "analyze_research",
                  "save_report"} : CallsOf(fn) # {}

\* C26: the report holds the very list the analyzer was given: the collected list
\* when the filter is off, the list the filter returned when it ran; main hands
\* the list on unchanged from stage to stage, in the same order and with every
\* duplicate.
C26_ReportFromAnalyzedList ==
    [][entry = "main" =>
          /\ pc = "collected" /\ pc' \in {"filter_relevant_results", "analyze_research"}
                => results' = results
          /\ pc \in {"filter_relevant_results", "judging"} => results' = results
          /\ pc = "filtered" /\ pc' = "analyze_research" => results' = relevant_results
          /\ pc = "analyze_research" =>
                /\ results' = results
                /\ calls' # calls => calls'[Len(calls')].arg = AnalyzerPrompt(query, results)
          /\ pc = "report" =>
                /\ results' = results
                /\ saved' # saved => /\ Len(saved') = Len(saved) + 1
                                     /\ saved'[Len(saved')].results = results]_vars

\* The filter kept two equal results of one adapter searched twice, and the saved
\* report lists both.
C26_DuplicatesReported ==
    /\ entry = "main"
    /\ exit_code = 0
    /\ enable_filter
    /\ Len(saved) = 1
    /\ Len(saved[1].results) = 2
    /\ saved[1].results[1] = saved[1].results[2]
    /\ saved[1].results = results

\* The judgements requested so far are those of the first results of the input, one
\* each and in input order.
JudgedInInputOrder ==
    /\ Len(calls) <= Len(results)
    /\ \A m \in 1..Len(calls) : calls[m] = Call("_judge_relevance", results[m].title)

\* C27: filter_relevant_results asks for one judgement per result of its input, in
\* the order of the input and whatever filter_batch_size is, and the list it returns
\* is the input with some results left out: nothing is repeated, moved or changed.
C27_OneJudgementEachInOrder ==
    entry = "filter_relevant_results" =>
        /\ JudgedInInputOrder
        /\ IsSubSequence(relevant_results, results)
        /\ Len(relevant_results) + filtered_out = Len(calls)
        /\ FilterReturned => Len(calls) = Len(results)

\* A batch size of two, three results judged one by one, the one in the middle left out.
C27_MiddleResultLeftOut ==
    /\ entry = "filter_relevant_results"
    /\ FilterReturned
    /\ filter_batch_size = 2
    /\ Len(results) = 3
    /\ results[1] # results[2]
    /\ Len(calls) = 3
    /\ relevant_results = <<results[1], results[3]>>

\* C28: when the reply of the judge is not valid JSON, the verdict is relevant exactly
\* when the reply contains "true" in any letter case, and the reason is the label
\* "Keyword match fallback".
C28_FallbackScansReply ==
    [][JudgingOne =>
        \A r \in {response'} : ReplyKind(r) = "undecodable" =>
            \A judged \in {verdict'} :
                /\ ~judged.raised
                /\ judged.reason = JStr(KeywordMatchFallback)
                /\ judged.is_relevant =
                      IF Contains(Lower(r.choices[1]), TrueWord) THEN JTrue ELSE JFalse]_vars

\* A reply that opens a ```json fence and says true without any brace: nothing of it
\* is left to scan, and the only result is dropped.
C28_TrueOutsideBracesDropped ==
    /\ entry = "filter_relevant_results"
    /\ FilterReturned
    /\ Len(results) = 1
    /\ response = ApiAnswers(<<JudgeFenceNoBraces>>)
    /\ Contains(Lower(response.choices[1]), TrueWord)
    /\ verdict = Verdict(JFalse, JStr(KeywordMatchFallback), FALSE)
    /\ relevant_results = <<>>

\* C29: when the reply decodes to a JSON object, the result is kept if and only if
\* the "relevant" field of the object is the boolean true; a missing field and a
\* value that is not a boolean never keep the result.
C29_KeptIffBooleanTrue ==
    [][JudgingOne =>
        \A r \in {response'} : ReplyKind(r) = "object" =>
            (KeptOne <=> DictGet(Decoded(r).v, KeyRelevant, JFalse) = JTrue)]_vars

\* The judge answered {"relevant": "false"}, and the only result was kept.
C29_StringFalseKept ==
    /\ entry = "filter_relevant_results"
    /\ FilterReturned
    /\ Len(results) = 1
    /\ response = ApiAnswers(<<JudgeStringFalse>>)
    /\ verdict.is_relevant = JStr(<<"f", "a", "l", "s", "e">>)
    /\ relevant_results = results
    /\ stats = Stats(1, 1, 0)

\* C30: a line "<n>. <text>" (n from 1 to 15) or "<bullet> <text>" of the insights
\* section is stored as <text>, the whole marker and nothing of the text removed,
\* when <text> is longer than 10 characters, and is not stored otherwise.
C30_InsightStoredAsText ==
    AnalyzeEnded =>
        \A marker \in Markers, text \in InsightTexts :
            response = ApiAnswers(<<InsightsReply(InsightLine(marker, text))>>) =>
                IF Len(text) > MinInsightLen
                THEN analysis.value.insights = <<text>>
                ELSE \A m \in 1..Len(analysis.value.insights) :
                        ~Contains(analysis.value.insights[m], text)

\* The line "10. This finding is long enough" was stored with "0. " in front.
C30_TenthKeepsItsZero ==
    /\ AnalyzeEnded
    /\ response = ApiAnswers(<<InsightsReply(InsightLine(DigitsOf(10) \o <<".">>, LongInsight))>>)
    /\ analysis.value.insights = <<<<"0", ".", " ">> \o LongInsight>>

=============================================================================
